---- MODULE Spec2Model ----
(***************************************************************************)
(* A model of anyq's portable runtime:                                     *)
(*   - MemoryQueue (packages/memory/src/queue.ts),                         *)
(*   - MemoryProducer / MemoryConsumer over a shared MemoryQueue,          *)
(*   - CircuitBreaker (packages/core/src/middleware/circuit-breaker.ts).   *)
(*                                                                         *)
(* Three specifications share the module's variables:                      *)
(*   SpecQueue    the MemoryQueue API called directly,                     *)
(*   SpecConsumer a producer and a consumer that connect, subscribe and    *)
(*                stay connected, with the 10 ms poll tick and the         *)
(*                handler's steps interleaved,                             *)
(*   SpecBreaker  CircuitBreaker.execute with overlapping operations,      *)
(*                reset(), trip(), getMetrics() and the clock.             *)
(*                                                                         *)
(* JavaScript objects shared by reference (a StoredMessage is referenced   *)
(* from the queue's array, from its processing map and from the consumer's *)
(* closures) live in one heap, mq.store, indexed by message id.            *)
(* generateMessageId() is `${Date.now()}-${sequence}-${random}`; the model *)
(* takes its results to be pairwise distinct and uses the position in the  *)
(* heap as the id.                                                         *)
(***************************************************************************)
EXTENDS Integers, Sequences, FiniteSets, TLC

----------------------------------------------------------------------------
(* Bounds of the model *)

\* messages the callers enqueue/publish in one behaviour
MaxEnqueues == 3
\* deliveries (dequeued messages) in one behaviour: caps the requeue loop
MaxDeliveries == 3
\* longest array among the payloads of SpecJson
MaxArrayLen == 2
\* publish() calls in SpecDelivery
MaxFairPublishes == 3
\* calls made in SpecRegistry
MaxRegistryOps == 5
\* enqueue and dequeue calls in SpecRequeue
MaxRequeueEnqueues == 2
MaxRequeueDeliveries == 2
\* the clock runs from 1 to MaxTime
MaxTime == 2
\* the capacity given to the bounded queue (maxMessages = K)
CapacityK == 2
\* the age limit given to the aging queue (maxAgeMs)
AgeLimit == 1
\* the largest count passed to dequeueBatch
MaxBatch == 2
\* SpecConsumer: messages published, and handler invocations, in one behaviour
MaxPublishes == 3
MaxDispatches == 5
\* SpecSettling: messages published, handler invocations, and the ack()/nack() calls
\* a handler makes on one envelope
MaxSettlingPublishes == 1
MaxSettlingDispatches == 2
MaxHandlerCalls == 1
MaxLifecyclePublishes == 2
MaxLifecycleDispatches == 3

\* broker-backed consumers: messages the broker holds at the start, and the number of
\* times the broker hands a message to the adapter
MaxBrokerMessages == 2
MaxHandovers == 4

\* deadLetterQueue.maxDeliveryAttempts of the consumer under test
MaxDeliveryAttemptsN == 2
\* SpecBreaker: the breaker's configuration, in clock ticks
FailureThreshold == 2
FailureWindow == 3
ResetTimeout == 2
SuccessThreshold == 2
\* SpecBreaker: execute() calls in one behaviour, and the last value of the clock
MaxRequests == 4
BreakerMaxTime == 5
\* SpecBackoff and SpecRetry: Math.random() takes the values r/RandomSteps, r < RandomSteps;
\* the largest attempt number passed to a backoff function; the largest maxRetries
RandomSteps == 4
MaxAttempt == 5
MaxRetriesBound == 2

\* SpecServiceBus: the largest number of messages given to publishBatch; the size a
\* ServiceBusMessageBatch holds (a message has a size of 1..BatchCapacity)
MaxBatchInput == 3
BatchCapacity == 2

\* SpecResilience: the largest number of executeWithResilience calls
MaxResilientCalls == 3

QueueNames == {"q", "dlq"}

VARIABLES
  mq,          \* the queues: heap of StoredMessage objects, arrays, processing maps, options
  now,         \* Date.now()
  deliveries,  \* history: deliveries[id] = number of times id was returned by dequeue on "q"
  requeues,    \* history: requeues[id] = number of successful nack(id, true)
  enqRun,      \* history: ids enqueued on "q" since the last other operation on "q"
  runBase,     \* history: size of "q" when that run of enqueues began
  prod,        \* MemoryProducer: [connected]
  cons,        \* MemoryConsumer: [connected, paused, running, polling, dlq, autoAck, handler]
  tasks,       \* poll() invocations whose handler has not finished: [msg, calls]
  published,   \* history: ids returned by publish(), in order
  dispatched,  \* history: ids handed to the handler, in order
  ev,          \* history: what the last step did (see Quiet and Settled)
  limits,      \* the bounds of this behaviour: [publishes, dispatches]
  breaker,     \* CircuitBreaker: [enabled, state, failures, successes, lastFailureTime,
               \*                  totalRequests, totalFailures]
  pending,     \* operations invoked by execute() that have not settled: [n, period]
  started,     \* history: number of execute() calls
  failureLog,  \* history: the time of every failure the breaker was told of
  closedAt,    \* history: Len(failureLog) when the breaker was last put into closed
  streak,      \* history: successes reported since the breaker last became half-open
  period,      \* history: number of half-open periods begun
  bev,         \* history: what the last breaker step did (see BreakerEvent)
  rt,          \* one withRetry() call: its options, its position, the signal, its history
  bk,          \* one backoff calculation: [fn, attempt, draw, delay, options]
  life,        \* history of the in-memory consumer's poll callbacks (see NoLife)
  px,          \* the producer under SpecProducer and its last publish() (see NoPublish)
  tp,          \* a broker-backed consumer adapter and its broker (see NoTransport)
  qev,         \* history: what the last direct MemoryQueue call did (see QueueEvent)
  reg,         \* the queue registry with one producer and one consumer (see NoRegistry)
  js,          \* one JsonSerializer round trip: [input, text, output] (see NoJson)
  sb           \* one ServiceBusProducer.publishBatch call (see NoServiceBus)

qvars == <<mq, now, deliveries, requeues, enqRun, runBase>>
cvars == <<prod, cons, tasks, published, dispatched, ev, limits>>
bvars == <<breaker, pending, started, failureLog, closedAt, streak, period, bev>>
zvars == <<reg, js, sb>>
yvars == <<life, px, tp, qev, zvars>>
xvars == <<rt, bk, yvars>>
vars == <<qvars, cvars, bvars, xvars>>

----------------------------------------------------------------------------
(* MemoryQueue *)

\* StoredMessage as enqueue builds it
NewMessage(body, key, headers, t) ==
  [ body |-> body, key |-> key, headers |-> headers, timestamp |-> t,
    deliveryAttempt |-> 0, acknowledged |-> FALSE, requeued |-> FALSE,
    deadLettered |-> FALSE ]

\* new MemoryQueue(name, {maxMessages, maxAgeMs}) for "q", new MemoryQueue(dlqName) for "dlq"
NewQueues(maxMessages, maxAgeMs) ==
  [ store |-> <<>>,
    messages |-> [qn \in QueueNames |-> <<>>],
    processing |-> [qn \in QueueNames |-> {}],
    maxMessages |-> [qn \in QueueNames |-> IF qn = "q" THEN maxMessages ELSE 0],
    maxAgeMs |-> [qn \in QueueNames |-> IF qn = "q" THEN maxAgeMs ELSE 0] ]

\* mutant of cleanup: a message whose age equals maxAgeMs is kept
cleanupKeepsBoundary(w, qn, t) ==
  IF w.maxAgeMs[qn] <= 0
  THEN w
  ELSE [w EXCEPT !.messages[qn] =
          SelectSeq(@, LAMBDA id : t - w.store[id].timestamp <= w.maxAgeMs[qn])]

\* private cleanup(): drop the stored messages whose age reached maxAgeMs
cleanup(w, qn, t) ==
  IF w.maxAgeMs[qn] <= 0
  THEN w
  ELSE [w EXCEPT !.messages[qn] =
          SelectSeq(@, LAMBDA id : t - w.store[id].timestamp < w.maxAgeMs[qn])]

\* enqueue as a slip would have it: on overflow the newest message is dropped (pop)
enqueueDropsNewest(w, qn, body, key, headers, t) ==
  LET c == cleanup(w, qn, t)
      id == Len(c.store) + 1
      pushed == Append(c.messages[qn], id)
  IN [c EXCEPT
        !.store = Append(@, NewMessage(body, key, headers, t)),
        !.messages[qn] =
           IF c.maxMessages[qn] > 0 /\ Len(pushed) > c.maxMessages[qn]
           THEN c.messages[qn] ELSE pushed]

\* enqueue(body, {key, headers}): cleanup, push, shift when over maxMessages
enqueue(w, qn, body, key, headers, t) ==
  LET c == cleanup(w, qn, t)
      id == Len(c.store) + 1
      pushed == Append(c.messages[qn], id)
  IN [c EXCEPT
        !.store = Append(@, NewMessage(body, key, headers, t)),
        !.messages[qn] =
           IF c.maxMessages[qn] > 0 /\ Len(pushed) > c.maxMessages[qn]
           THEN Tail(pushed) ELSE pushed]

\* the id enqueue returns
enqueuedId(w) == Len(w.store) + 1

\* dequeue as a slip would have it: a message that was requeued keeps its attempt number
dequeueCountsFirstOnly(w, qn, t) ==
  LET c == cleanup(w, qn, t)
  IN IF c.messages[qn] = <<>>
     THEN [w |-> c, message |-> 0]
     ELSE LET id == Head(c.messages[qn])
          IN [w |-> [c EXCEPT !.messages[qn] = Tail(@),
                              !.store[id].deliveryAttempt =
                                 IF c.store[id].requeued THEN @ ELSE @ + 1,
                              !.processing[qn] = @ \cup {id}],
              message |-> id]

\* dequeue as a slip would have it: the newest message is taken (pop instead of shift)
dequeueNewest(w, qn, t) ==
  LET c == cleanup(w, qn, t)
  IN IF c.messages[qn] = <<>>
     THEN [w |-> c, message |-> 0]
     ELSE LET id == c.messages[qn][Len(c.messages[qn])]
          IN [w |-> [c EXCEPT !.messages[qn] = SubSeq(@, 1, Len(@) - 1),
                              !.store[id].deliveryAttempt = @ + 1,
                              !.processing[qn] = @ \cup {id}],
              message |-> id]

\* dequeue(): cleanup, shift, deliveryAttempt++, processing.set(id, message).
\* .w is the queue afterwards, .message the id of the message returned (0: undefined)
dequeue(w, qn, t) ==
  LET c == cleanup(w, qn, t)
  IN IF c.messages[qn] = <<>>
     THEN [w |-> c, message |-> 0]
     ELSE LET id == Head(c.messages[qn])
          IN [w |-> [c EXCEPT !.messages[qn] = Tail(@),
                              !.store[id].deliveryAttempt = @ + 1,
                              !.processing[qn] = @ \cup {id}],
              message |-> id]

\* dequeueBatch(count): cleanup, then dequeue() until count messages or undefined.
\* .w is the queue afterwards, .messages the ids returned, in order
RECURSIVE dequeueBatch(_, _, _, _)
dequeueBatch(w, qn, count, t) ==
  LET d == dequeue(cleanup(w, qn, t), qn, t)
  IN IF count <= 0 \/ d.message = 0
     THEN [w |-> cleanup(w, qn, t), messages |-> <<>>]
     ELSE LET rest == dequeueBatch(d.w, qn, count - 1, t)
          IN [w |-> rest.w, messages |-> <<d.message>> \o rest.messages]

\* ack(messageId): false when not in flight, else mark and delete from processing
ack(w, qn, id) ==
  IF id \notin w.processing[qn]
  THEN w
  ELSE [w EXCEPT !.store[id].acknowledged = TRUE,
                 !.processing[qn] = @ \ {id}]

\* mutant of nack: requeue puts the message at the tail
nackRequeuesAtTail(w, qn, id, requeue) ==
  IF id \notin w.processing[qn]
  THEN w
  ELSE IF requeue
       THEN [w EXCEPT !.processing[qn] = @ \ {id},
                      !.store[id].requeued = TRUE,
                      !.messages[qn] = Append(@, id)]
       ELSE [w EXCEPT !.processing[qn] = @ \ {id}]

\* mutant of nack: a requeued message stays in the in-flight map
nackKeepsInFlight(w, qn, id, requeue) ==
  IF id \notin w.processing[qn]
  THEN w
  ELSE IF requeue
       THEN [w EXCEPT !.store[id].requeued = TRUE,
                      !.messages[qn] = <<id>> \o @]
       ELSE [w EXCEPT !.processing[qn] = @ \ {id}]

\* nack(messageId, requeue): delete from processing; requeue puts it at the head
nack(w, qn, id, requeue) ==
  IF id \notin w.processing[qn]
  THEN w
  ELSE IF requeue
       THEN [w EXCEPT !.processing[qn] = @ \ {id},
                      !.store[id].requeued = TRUE,
                      !.messages[qn] = <<id>> \o @]
       ELSE [w EXCEPT !.processing[qn] = @ \ {id}]

\* mutant of deathReason: the error's message is not used
deathReasonFixed(error) == "max retries exceeded"

\* error?.message ?? 'max retries exceeded', the error given by its message
deathReason(error) == IF error = "undefined" THEN "max retries exceeded" ELSE error

\* the headers deadLetter adds; the spread keeps the original ones they do not name
dlqHeaders(w, qn, id, reason, t) ==
  [h \in {"x-original-queue", "x-death-reason", "x-death-time", "x-delivery-attempts"} |->
     CASE h = "x-original-queue" -> qn
       [] h = "x-death-reason" -> reason
       [] h = "x-death-time" -> ToString(t)
       [] OTHER -> ToString(w.store[id].deliveryAttempt)]
  @@ w.store[id].headers

\* deadLetter(messageId, dlq, error): delete from processing, dlq.enqueue(body, {key, headers})
deadLetter(w, qn, id, dlq, reason, t) ==
  IF id \notin w.processing[qn]
  THEN w
  ELSE enqueue([w EXCEPT !.processing[qn] = @ \ {id}], dlq,
               w.store[id].body, w.store[id].key, dlqHeaders(w, qn, id, reason, t), t)

\* size(), processingCount(), clear()
size(w, qn) == Len(w.messages[qn])
processingCount(w, qn) == Cardinality(w.processing[qn])
clear(w, qn) == [w EXCEPT !.messages[qn] = <<>>, !.processing[qn] = {}]

----------------------------------------------------------------------------
(* SpecQueue: the MemoryQueue API called directly on "q", with "dlq" as the  *)
(* dead-letter target.                                                       *)

\* ids a behaviour can allocate: one per message enqueued or published, one per DLQ record
IdSpace == 1..(2 * (IF MaxEnqueues > MaxPublishes THEN MaxEnqueues ELSE MaxPublishes))

\* headers the callers pass to enqueue / publish
OrigHeaders == ("trace-id" :> "abc")

\* history of a run of consecutive enqueues on "q": any other change of its array ends the run
RunAfter(w) ==
  IF w.messages["q"] = mq.messages["q"]
  THEN UNCHANGED <<enqRun, runBase>>
  ELSE enqRun' = <<>> /\ runBase' = size(w, "q")

----------------------------------------------------------------------------
(* CircuitBreaker: the class's fields as a record, its methods as operators *)

\* lastFailureTime = 0 stands for undefined: `!this.lastFailureTime` holds for both,
\* and the clock starts at 1
NewBreaker(enabled) ==
  [enabled |-> enabled, state |-> "closed", failures |-> <<>>, successes |-> 0,
   lastFailureTime |-> 0, totalRequests |-> 0, totalFailures |-> 0]

\* mutant of cleanOldFailures: keeps a failure that is exactly failureWindow old
cleanKeepsBoundary(b, t) ==
  [b EXCEPT !.failures = SelectSeq(@, LAMBDA time : time >= t - FailureWindow)]

cleanOldFailures(b, t) ==
  [b EXCEPT !.failures = SelectSeq(@, LAMBDA time : time > t - FailureWindow)]

\* mutant of shouldAttemptReset: one tick early
shouldAttemptResetEarly(b, t) ==
  IF b.lastFailureTime = 0 THEN TRUE ELSE t - b.lastFailureTime >= ResetTimeout - 1

\* mutant of shouldAttemptReset: one tick late
shouldAttemptResetLate(b, t) ==
  IF b.lastFailureTime = 0 THEN TRUE ELSE t - b.lastFailureTime > ResetTimeout

shouldAttemptReset(b, t) ==
  IF b.lastFailureTime = 0 THEN TRUE ELSE t - b.lastFailureTime >= ResetTimeout

\* execute() up to the point where it invokes the operation or throws
execute(b, t) ==
  IF ~b.enabled
  THEN [b |-> b, invoked |-> TRUE, error |-> "none"]
  ELSE LET c == cleanOldFailures([b EXCEPT !.totalRequests = @ + 1], t)
       IN IF c.state = "open"
          THEN IF shouldAttemptReset(c, t)
               THEN [b |-> [c EXCEPT !.state = "half-open", !.successes = 0],
                     invoked |-> TRUE, error |-> "none"]
               ELSE [b |-> c, invoked |-> FALSE, error |-> "CircuitOpenError"]
          ELSE [b |-> c, invoked |-> TRUE, error |-> "none"]

getMetrics(b, t) ==
  LET c == cleanOldFailures(b, t)
  IN [b |-> c,
      metrics |-> [state |-> c.state, failures |-> Len(c.failures), successes |-> c.successes,
                   lastFailureTime |-> c.lastFailureTime,
                   totalRequests |-> c.totalRequests, totalFailures |-> c.totalFailures]]

reset(b) ==
  [b EXCEPT !.state = "closed", !.failures = <<>>, !.successes = 0, !.lastFailureTime = 0]

\* mutant of trip: lastFailureTime is left as it was
tripKeepsTime(b, t) == [b EXCEPT !.state = "open"]

trip(b, t) == [b EXCEPT !.state = "open", !.lastFailureTime = t]

\* mutant of onSuccess: closes one success late
onSuccessClosesLate(b) ==
  IF b.state = "half-open"
  THEN IF b.successes + 1 > SuccessThreshold
       THEN [b EXCEPT !.state = "closed", !.failures = <<>>, !.successes = 0]
       ELSE [b EXCEPT !.successes = @ + 1]
  ELSE IF b.state = "closed" THEN [b EXCEPT !.successes = 0] ELSE b

onSuccess(b) ==
  IF b.state = "half-open"
  THEN IF b.successes + 1 >= SuccessThreshold
       THEN [b EXCEPT !.state = "closed", !.failures = <<>>, !.successes = 0]
       ELSE [b EXCEPT !.successes = @ + 1]
  ELSE IF b.state = "closed" THEN [b EXCEPT !.successes = 0] ELSE b

\* mutant of onFailure: a failure in half-open reopens without moving lastFailureTime
onFailureKeepsTime(b, t) ==
  LET c == [b EXCEPT !.failures = Append(@, t), !.totalFailures = @ + 1,
                     !.lastFailureTime = IF b.state = "half-open" THEN @ ELSE t]
  IN IF c.state = "half-open"
     THEN [c EXCEPT !.state = "open", !.successes = 0]
     ELSE IF c.state = "closed"
          THEN LET d == cleanOldFailures(c, t)
               IN IF Len(d.failures) >= FailureThreshold THEN [d EXCEPT !.state = "open"] ELSE d
          ELSE c

onFailure(b, t) ==
  LET c == [b EXCEPT !.failures = Append(@, t), !.lastFailureTime = t, !.totalFailures = @ + 1]
  IN IF c.state = "half-open"
     THEN [c EXCEPT !.state = "open", !.successes = 0]
     ELSE IF c.state = "closed"
          THEN LET d == cleanOldFailures(c, t)
               IN IF Len(d.failures) >= FailureThreshold THEN [d EXCEPT !.state = "open"] ELSE d
          ELSE c

NoMetrics ==
  [state |-> "none", failures |-> 0, successes |-> 0, lastFailureTime |-> 0,
   totalRequests |-> 0, totalFailures |-> 0]

\* what a breaker step did: the method (op), the state it found (from), the time since
\* lastFailureTime it found (elapsed, -1 when undefined), the error it threw, whether it
\* invoked the caller's operation, and the metrics it returned
BreakerEvent(op, b, t, error, invoked, metrics) ==
  [op |-> op, from |-> b.state,
   elapsed |-> IF b.lastFailureTime = 0 THEN -1 ELSE t - b.lastFailureTime,
   error |-> error, invoked |-> invoked, metrics |-> metrics]

\* the breaker as the other specifications leave it: constructed and never called
NoBreaker ==
  /\ breaker = NewBreaker(FALSE)
  /\ pending = {}
  /\ started = 0
  /\ failureLog = <<>>
  /\ closedAt = 0
  /\ streak = 0
  /\ period = 0
  /\ bev = BreakerEvent("none", NewBreaker(FALSE), 1, "none", FALSE, NoMetrics)

----------------------------------------------------------------------------
(* Backoff: utils/backoff.ts and the retry engine's calculateBackoff.          *)
(* Delays are integers (ms). Math.random() is the draw r/RandomSteps with      *)
(* r in 0..RandomSteps-1; a jittered delay is a fraction with the denominator  *)
(* JitterDen, and Math.floor is the integer division by it.                    *)

Strategies == {"exponential", "linear", "constant", "fibonacci"}
Draws == 0..(RandomSteps - 1)
JitterDen == 100 * RandomSteps

Min(a, b) == IF a < b THEN a ELSE b
Max(a, b) == IF a > b THEN a ELSE b

RECURSIVE Pow(_, _)
Pow(m, n) == IF n <= 0 THEN 1 ELSE m * Pow(m, n - 1)

\* fibonacci(n): 1, 1, 2, 3, 5, ...
RECURSIVE fibonacciLoop(_, _, _, _)
fibonacciLoop(i, n, prev, curr) ==
  IF i < n THEN fibonacciLoop(i + 1, n, curr, prev + curr) ELSE curr

\* mutant of fibonacci: the loop runs once more (1, 2, 3, 5, ...)
fibonacciOneAhead(n) == IF n <= 1 THEN 1 ELSE fibonacciLoop(1, n, 1, 1)

fibonacci(n) == IF n <= 1 THEN 1 ELSE fibonacciLoop(2, n, 1, 1)

\* applyJitter(delay, factor) with the draw r; factor in percent; the result is in
\* units of 1/JitterDen
applyJitter(delay, factor, r) ==
  Max(0, delay * JitterDen + delay * factor * (2 * r - RandomSteps))

\* Math.floor of a value in units of 1/JitterDen
Floor(x) == x \div JitterDen

\* the tail shared by the backoff functions: jitter if enabled, then floor
Jittered(delay, o, r) ==
  Floor(IF o.jitter THEN applyJitter(delay, o.jitterFactor, r) ELSE delay * JitterDen)

exponentialBackoff(attempt, o, r) ==
  Jittered(Min(o.initialDelayMs * Pow(o.multiplier, attempt - 1), o.maxDelayMs), o, r)

linearBackoff(attempt, o, r) ==
  Jittered(Min(o.initialDelayMs + (attempt - 1) * o.multiplier, o.maxDelayMs), o, r)

constantBackoff(attempt, o, r) == Jittered(o.initialDelayMs, o, r)

fibonacciBackoff(attempt, o, r) ==
  Jittered(Min(o.initialDelayMs * fibonacci(attempt), o.maxDelayMs), o, r)

calculateDelay(attempt, o, r) ==
  CASE o.strategy = "exponential" -> exponentialBackoff(attempt, o, r)
    [] o.strategy = "linear" -> linearBackoff(attempt, o, r)
    [] o.strategy = "constant" -> constantBackoff(attempt, o, r)
    [] o.strategy = "fibonacci" -> fibonacciBackoff(attempt, o, r)
    [] OTHER -> exponentialBackoff(attempt, o, r)

\* retry.ts calculateBackoff(attempt, config): exponential, capped, +-25% jitter, floor
calculateBackoff(attempt, config, r) ==
  LET delay == Min(config.initialDelayMs * Pow(config.multiplier, attempt - 1),
                   config.maxDelayMs)
  IN Floor(IF config.jitter THEN applyJitter(delay, 25, r) ELSE delay * JitterDen)

\* the options the backoff specification draws from
BackoffOptions ==
  [strategy : Strategies, initialDelayMs : {1, 4, 10}, maxDelayMs : {8, 20},
   multiplier : {2, 3}, jitter : BOOLEAN, jitterFactor : {25}]

NoBackoff ==
  bk = [fn |-> "none", attempt |-> 0, draw |-> 0, delay |-> 0,
        options |-> CHOOSE o \in BackoffOptions : TRUE]

----------------------------------------------------------------------------
(* withRetry: one call as a record r; its steps between two awaits as operators *)

DefaultRetryConfig ==
  [maxRetries |-> 3, initialDelayMs |-> 100, maxDelayMs |-> 10000, multiplier |-> 2,
   jitter |-> TRUE]

\* the errors the model's operations reject with: AnyQError subclasses carry a retryable
\* flag, plain Errors are matched against the retryable patterns; at is the attempt that
\* threw the error
Errors ==
  { [name |-> "ConnectionError", anyq |-> TRUE, retryable |-> TRUE, matches |-> FALSE, at |-> 0],
    [name |-> "CircuitOpenError", anyq |-> TRUE, retryable |-> FALSE, matches |-> FALSE, at |-> 0],
    [name |-> "SerializationError", anyq |-> TRUE, retryable |-> FALSE, matches |-> FALSE, at |-> 0],
    [name |-> "ETIMEDOUT", anyq |-> FALSE, retryable |-> FALSE, matches |-> TRUE, at |-> 0],
    [name |-> "Invalid input", anyq |-> FALSE, retryable |-> FALSE, matches |-> FALSE, at |-> 0] }

\* the errors withRetry and sleep make themselves
Cancelled(name) ==
  [name |-> name, anyq |-> FALSE, retryable |-> FALSE, matches |-> FALSE, at |-> 0]

isRetryableError(error) == IF error.anyq THEN error.retryable ELSE error.matches

\* options.isRetryable: the default, or the caller's predicate `() => false`
isRetryable(r, error) == IF r.isRetryable = "never" THEN FALSE ELSE isRetryableError(error)

NoOutcome == [kind |-> "pending", error |-> Cancelled("none")]

NewRetry(maxRetries, signal, onRetry, pred, jitter) ==
  [pc |-> "idle", maxRetries |-> maxRetries, signal |-> signal, onRetry |-> onRetry,
   isRetryable |-> pred, jitter |-> jitter,
   attempt |-> 0, aborted |-> FALSE, delayMs |-> 0, lastError |-> Cancelled("none"),
   outcome |-> NoOutcome,
   \* history
   invocations |-> 0, errors |-> <<>>, retries |-> <<>>,
   sleeps |-> 0]

throws(r, error) == [r EXCEPT !.pc = "done", !.outcome = [kind |-> "error", error |-> error]]

returns(r) == [r EXCEPT !.pc = "done", !.outcome = [kind |-> "value", error |-> Cancelled("none")]]

\* mutant of attemptStart: the loop does not look at the signal
attemptStartBlind(r, n) ==
  [r EXCEPT !.attempt = n, !.pc = "operation", !.invocations = @ + 1]

\* the head of the loop body for attempt n: the signal check, then operation() is invoked
attemptStart(r, n) ==
  IF r.signal /\ r.aborted
  THEN throws([r EXCEPT !.attempt = n], Cancelled("Operation aborted"))
  ELSE [r EXCEPT !.attempt = n, !.pc = "operation", !.invocations = @ + 1]

\* sleep(ms, signal) up to its return: rejects at once when the signal has fired
sleep(r) ==
  IF r.signal /\ r.aborted
  THEN throws(r, Cancelled("Aborted"))
  ELSE [r EXCEPT !.pc = "sleeping", !.sleeps = @ + 1]

\* mutant of retryInfo: reports the attempt that failed
retryInfoCurrent(r) ==
  [attempt |-> r.attempt, maxAttempts |-> r.maxRetries + 1, delayMs |-> r.delayMs,
   error |-> r.lastError]

\* the RetryAttempt passed to onRetry
retryInfo(r) ==
  [attempt |-> r.attempt + 1, maxAttempts |-> r.maxRetries + 1, delayMs |-> r.delayMs,
   error |-> r.lastError]

\* mutant of caught: gives up one attempt early
caughtGivesUpEarly(r, error, draw) ==
  LET e == [error EXCEPT !.at = r.attempt]
      c == [r EXCEPT !.lastError = e, !.errors = Append(@, e)]
      shouldRetry == ~(r.attempt >= r.maxRetries) /\ isRetryable(r, e)
      d == [c EXCEPT !.delayMs =
              calculateBackoff(r.attempt, [DefaultRetryConfig EXCEPT !.jitter = r.jitter], draw)]
  IN IF ~shouldRetry THEN throws(c, e)
     ELSE IF r.onRetry
          THEN [d EXCEPT !.pc = "onRetry", !.retries = Append(@, retryInfo(d))]
          ELSE sleep(d)

\* the catch block, from the rejection of operation() to the next await: throw, or
\* compute the delay and call onRetry, or (without onRetry) call sleep
caught(r, error, draw) ==
  LET e == [error EXCEPT !.at = r.attempt]
      c == [r EXCEPT !.lastError = e, !.errors = Append(@, e)]
      isLastAttempt == r.attempt >= r.maxRetries + 1
      shouldRetry == ~isLastAttempt /\ isRetryable(r, e)
      d == [c EXCEPT !.delayMs =
              calculateBackoff(r.attempt, [DefaultRetryConfig EXCEPT !.jitter = r.jitter], draw)]
  IN IF ~shouldRetry THEN throws(c, e)
     ELSE IF r.onRetry
          THEN [d EXCEPT !.pc = "onRetry", !.retries = Append(@, retryInfo(d))]
          ELSE sleep(d)

\* the timer of sleep fires: the loop goes on with the next attempt
sleepEnds(r) ==
  IF r.attempt + 1 <= r.maxRetries + 1
  THEN attemptStart(r, r.attempt + 1)
  ELSE throws(r, r.lastError)

\* the signal fires: a sleep in progress rejects through its abort listener
abort(r) ==
  IF r.pc = "sleeping"
  THEN throws([r EXCEPT !.aborted = TRUE], Cancelled("Aborted"))
  ELSE [r EXCEPT !.aborted = TRUE]

NoRetry == rt = NewRetry(0, FALSE, FALSE, "default", FALSE)

\* the poll callbacks' history: 'error' events emitted, handler invocations that threw,
\* errors that escaped a poll callback (rejections of the promise setInterval drops),
\* the messages whose handler was running when disconnect() was called, and whether
\* disconnect() was ever called on a connected consumer
NoLife ==
  life = [errorEvents |-> 0, handlerThrows |-> 0, escaped |-> 0, cut |-> {},
          disconnected |-> FALSE]

\* a producer that has not published: the adapter, the number of publish() calls, and for
\* the last call whether the breaker would have rejected it (open), how often the backend
\* send was invoked (sends), whether the send failed with a retryable error (failed), the
\* error publish() threw, whether the backend was touched, and the messages SQS accepted
NoPublish ==
  px = [adapter |-> "memory", calls |-> 0, op |-> "none", open |-> FALSE, sends |-> 0,
        failed |-> FALSE, error |-> "none", touched |-> FALSE, sent |-> 0]

\* no broker-backed consumer
NoTransport ==
  tp = [adapter |-> "none", subscribed |-> FALSE, paused |-> FALSE, receiving |-> FALSE,
        ready |-> <<>>, unacked |-> {}, done |-> {}, batch |-> <<>>, handling |-> {},
        handovers |-> 0, returned |-> {}, skipped |-> {}, redelivered |-> {}, thrown |-> {},
             discarded |-> {}]

\* what the last direct MemoryQueue call did to a message that was in flight: the method
\* (nack with requeue, or deadLetter), its messageId and the message of the error given
\* to deadLetter ("undefined": none given); "none" after any other call
QueueEvent(op, id, error) == [op |-> op, id |-> id, error |-> error]

NoQueueEvent == QueueEvent("none", 0, "undefined")

\* the registry world and the serializer as the other specifications leave them: unused.
\* queues: the MemoryQueue instance the registry's map holds under the one queueName
\* (0: no entry); producer, consumer: the instance in the adapter's `queue` field (0: null,
\* not connected); stored: the messages each instance constructed so far holds;
\* published: what the last publish() stored where; ops: calls made
NoRegistry ==
  [queues |-> 0, producer |-> 0, consumer |-> 0, stored |-> <<>>,
   published |-> [message |-> 0, queue |-> 0], ops |-> 0]

Undefined == [type |-> "undefined"]

NoJson == [input |-> Undefined, text |-> Undefined, output |-> Undefined]

NoServiceBus ==
  [phase |-> "none", connected |-> FALSE, input |-> <<>>, next |-> 0, batch |-> <<>>,
   sent |-> <<>>, messageIds |-> <<>>]

NoOthers ==
  /\ NoLife /\ NoPublish /\ NoTransport /\ qev = NoQueueEvent
  /\ reg = NoRegistry /\ sb = NoServiceBus /\ js = NoJson

\* the variables of the later specifications as the earlier ones leave them
NoExtras == NoRetry /\ NoBackoff /\ NoOthers

RECURSIVE SumOver(_, _)
SumOver(f, S) ==
  IF S = {} THEN 0 ELSE LET x == CHOOSE y \in S : TRUE IN f[x] + SumOver(f, S \ {x})

\* deliveries the bound still allows
DeliveryBudget == limits.dispatches - SumOver(deliveries, IdSpace)

\* the consumer and producer as SpecQueue leaves them: never constructed
NoConsumer ==
  /\ prod = [connected |-> FALSE]
  /\ cons = [connected |-> FALSE, paused |-> FALSE, running |-> FALSE, polling |-> FALSE,
             dlq |-> FALSE, autoAck |-> TRUE, handler |-> "none"]
  /\ tasks = {}
  /\ published = <<>>
  /\ dispatched = <<>>
  /\ ev = [op |-> "none", repeat |-> FALSE, changed |-> FALSE]
  /\ limits = [publishes |-> 0, dispatches |-> 0]

\* the queue as a test constructs it, nothing enqueued, with the bounds on enqueue and
\* dequeue calls of the behaviour
QueueAlone(enqueues, dequeues) ==
  /\ prod = [connected |-> FALSE]
  /\ cons = [connected |-> FALSE, paused |-> FALSE, running |-> FALSE, polling |-> FALSE,
             dlq |-> FALSE, autoAck |-> TRUE, handler |-> "none"]
  /\ tasks = {}
  /\ published = <<>>
  /\ dispatched = <<>>
  /\ ev = [op |-> "none", repeat |-> FALSE, changed |-> FALSE]
  /\ limits = [publishes |-> enqueues, dispatches |-> dequeues]
  /\ NoBreaker
  /\ NoExtras
  /\ \E c \in {<<0, 0>>, <<CapacityK, 0>>, <<0, AgeLimit>>} : mq = NewQueues(c[1], c[2])
  /\ now = 1
  /\ deliveries = [id \in IdSpace |-> 0]
  /\ requeues = [id \in IdSpace |-> 0]
  /\ enqRun = <<>>
  /\ runBase = 0

InitQueue == QueueAlone(MaxEnqueues, MaxDeliveries)

InitRequeue == QueueAlone(MaxRequeueEnqueues, MaxRequeueDeliveries)

QEnqueue ==
  /\ Len(mq.store) < limits.publishes
  /\ mq' = enqueue(mq, "q", Len(mq.store), "k", OrigHeaders, now)
  /\ enqRun' = Append(enqRun, enqueuedId(mq))
  /\ qev' = NoQueueEvent
  /\ UNCHANGED <<cvars, bvars, rt, bk, life, px, tp, zvars>>
  /\ UNCHANGED <<now, deliveries, requeues, runBase>>

QDequeue ==
  LET d == dequeue(mq, "q", now)
  IN /\ DeliveryBudget >= 1
     /\ mq' = d.w
     /\ deliveries' = IF d.message = 0 THEN deliveries
                                       ELSE [deliveries EXCEPT ![d.message] = @ + 1]
     /\ RunAfter(mq')
     /\ qev' = NoQueueEvent
     /\ UNCHANGED <<cvars, bvars, rt, bk, life, px, tp, zvars>>
     /\ UNCHANGED <<now, requeues>>

QDequeueBatch ==
  \E count \in 2..MaxBatch :
    LET d == dequeueBatch(mq, "q", count, now)
        ids == d.messages
    IN /\ DeliveryBudget >= Len(ids)
       /\ mq' = d.w
       /\ deliveries' = [id \in IdSpace |->
                           deliveries[id] + Cardinality({i \in 1..Len(ids) : ids[i] = id})]
       /\ RunAfter(mq')
       /\ qev' = NoQueueEvent
       /\ UNCHANGED <<cvars, bvars, rt, bk, life, px, tp, zvars>>
       /\ UNCHANGED <<now, requeues>>

QAck ==
  \E id \in 1..Len(mq.store) :
    /\ mq' = ack(mq, "q", id)
    /\ qev' = NoQueueEvent
    /\ UNCHANGED <<cvars, bvars, rt, bk, life, px, tp, zvars>>
    /\ UNCHANGED <<now, deliveries, requeues, enqRun, runBase>>

\* nack(id, requeue) called on "q"
NackCall(id, requeue) ==
  /\ mq' = nack(mq, "q", id, requeue)
  /\ requeues' = IF requeue /\ id \in mq.processing["q"]
                 THEN [requeues EXCEPT ![id] = @ + 1] ELSE requeues
  /\ RunAfter(mq')
  /\ UNCHANGED <<cvars, bvars, rt, bk, life, px, tp, zvars>>
  /\ UNCHANGED <<now, deliveries>>

\* deadLetter(id, dlq, error) called on "q", the error given by its message
DeadLetterCall(id, error) ==
  /\ mq' = deadLetter(mq, "q", id, "dlq", deathReason(error), now)
  /\ UNCHANGED <<cvars, bvars, rt, bk, life, px, tp, zvars>>
  /\ UNCHANGED <<now, deliveries, requeues, enqRun, runBase>>

QNack ==
  \E id \in 1..Len(mq.store), requeue \in BOOLEAN :
    /\ NackCall(id, requeue)
    /\ qev' = NoQueueEvent

QDeadLetter ==
  \E id \in 1..Len(mq.store) :
    /\ DeadLetterCall(id, "undefined")
    /\ qev' = NoQueueEvent

QClear ==
  /\ mq' = clear(mq, "q")
  /\ RunAfter(mq')
  /\ qev' = NoQueueEvent
  /\ UNCHANGED <<cvars, bvars, rt, bk, life, px, tp, zvars>>
  /\ UNCHANGED <<now, deliveries, requeues>>

\* The clock is read by cleanup() alone, and only when maxAgeMs > 0; elsewhere it is
\* copied into timestamps. It is kept still for a queue without an age limit.
QTick ==
  /\ mq.maxAgeMs["q"] > 0
  /\ now < MaxTime
  /\ now' = now + 1
  /\ qev' = NoQueueEvent
  /\ UNCHANGED <<cvars, bvars, rt, bk, life, px, tp, zvars>>
  /\ UNCHANGED <<mq, deliveries, requeues, enqRun, runBase>>

NextQueue ==
  \/ QEnqueue
  \/ QDequeue
  \/ QDequeueBatch
  \/ QAck
  \/ QNack
  \/ QDeadLetter
  \/ QClear
  \/ QTick

SpecQueue == InitQueue /\ [][NextQueue]_vars

\* The same calls with the last nack-with-requeue or deadLetter of an in-flight message
\* kept in qev, and deadLetter called with and without an error.
RNack ==
  \E id \in 1..Len(mq.store), requeue \in BOOLEAN :
    /\ NackCall(id, requeue)
    /\ qev' = IF requeue /\ id \in mq.processing["q"]
              THEN QueueEvent("nack", id, "undefined") ELSE NoQueueEvent

RDeadLetter ==
  \E id \in 1..Len(mq.store), error \in {"undefined", "Processing failed"} :
    /\ DeadLetterCall(id, error)
    /\ qev' = IF id \in mq.processing["q"]
              THEN QueueEvent("deadLetter", id, error) ELSE NoQueueEvent

NextRequeue ==
  \/ QEnqueue
  \/ QDequeue
  \/ QAck
  \/ RNack
  \/ RDeadLetter
  \/ QTick

SpecRequeue == InitRequeue /\ [][NextRequeue]_vars

----------------------------------------------------------------------------
(* MemoryProducer and MemoryConsumer                                         *)
(*                                                                           *)
(* subscribe() starts setInterval(poll, 10). poll is async: the timer fires  *)
(* it again while an earlier invocation still awaits its handler, so several *)
(* invocations (tasks) can be in progress. Between two awaits a piece of     *)
(* JavaScript runs alone; each action below is one such piece.               *)

\* "returns": the handler returns normally and never calls ack()/nack();
\* "throws": it throws without calling them; "settles": it may call them, then returns or throws;
\* "requeuesOnce": it calls nack(true) on its first invocation and ack() on every later one
HandlerKinds == {"returns", "throws", "settles", "requeuesOnce"}

Quiet == [op |-> "none", repeat |-> FALSE, changed |-> FALSE]

\* what an ack()/nack() call on task t's envelope did: repeat says the envelope had been
\* settled before, changed that the stored sequences or the in-flight maps differ after it
Settled(op, t, w) ==
  [op |-> op, repeat |-> t.calls > 0,
   changed |-> <<w.messages, w.processing>> # <<mq.messages, mq.processing>>]

\* createWrappedMessage(stored): the envelope, a copy of the stored fields at dispatch
createWrappedMessage(w, id) ==
  [id |-> id, body |-> w.store[id].body, key |-> w.store[id].key,
   headers |-> w.store[id].headers, timestamp |-> w.store[id].timestamp,
   deliveryAttempt |-> w.store[id].deliveryAttempt]

\* mutant of onAck: the acknowledgement is lost
onAckForgets(w, c, id) == w

\* onAck: this.queue?.ack(stored.id)
onAck(w, c, id) == IF c.connected THEN ack(w, "q", id) ELSE w

\* mutant of onNack: the requeue argument is not passed on
onNackDrops(w, c, id, requeue) == IF c.connected THEN nack(w, "q", id, FALSE) ELSE w

\* onNack: this.queue?.nack(stored.id, requeue)
onNack(w, c, id, requeue) == IF c.connected THEN nack(w, "q", id, requeue) ELSE w

\* poll's guard as a slip would have it: the pause flag is not looked at
pollsIgnoringPause(c) == c.running /\ c.connected

\* poll goes on to dequeue unless (!this.running || this._paused || !this.queue)
polls(c) == c.running /\ ~c.paused /\ c.connected

\* the catch block's choice as a slip would have it: one attempt too many
deadLettersLate(w, c, id) == w.store[id].deliveryAttempt > MaxDeliveryAttemptsN /\ c.dlq

\* mutant of deadLetters: one attempt too few
deadLettersEarly(w, c, id) == w.store[id].deliveryAttempt >= MaxDeliveryAttemptsN - 1 /\ c.dlq

\* the catch block dead-letters when stored.deliveryAttempt >= maxDeliveryAttempts && this.dlq
deadLetters(w, c, id) == w.store[id].deliveryAttempt >= MaxDeliveryAttemptsN /\ c.dlq

\* the error the model's failing handler throws
HandlerError == "Processing failed"

ConsumerConstructed ==
  /\ mq = NewQueues(0, 0)
  /\ now = 1
  /\ deliveries = [id \in IdSpace |-> 0]
  /\ requeues = [id \in IdSpace |-> 0]
  /\ enqRun = <<>>
  /\ runBase = 0
  /\ prod = [connected |-> FALSE]
  /\ \E d \in BOOLEAN :
       cons = [connected |-> FALSE, paused |-> FALSE, running |-> FALSE, polling |-> FALSE,
               dlq |-> d, autoAck |-> TRUE, handler |-> "none"]
  /\ tasks = {}
  /\ published = <<>>
  /\ dispatched = <<>>
  /\ ev = Quiet
  /\ NoBreaker
  /\ NoExtras

InitConsumer ==
  /\ ConsumerConstructed
  /\ limits = [publishes |-> MaxPublishes, dispatches |-> MaxDispatches]

InitLifecycle ==
  /\ ConsumerConstructed
  /\ limits = [publishes |-> MaxLifecyclePublishes, dispatches |-> MaxLifecycleDispatches]

InitSettling ==
  /\ ConsumerConstructed
  /\ limits = [publishes |-> MaxSettlingPublishes, dispatches |-> MaxSettlingDispatches]

\* MemoryProducer.connect()
ProducerConnect ==
  /\ ~prod.connected
  /\ prod' = [prod EXCEPT !.connected = TRUE]
  /\ ev' = Quiet
  /\ UNCHANGED <<qvars, cons, tasks, published, dispatched, limits, bvars, xvars>>

\* MemoryConsumer.connect()
ConsumerConnect ==
  /\ ~cons.connected
  /\ cons' = [cons EXCEPT !.connected = TRUE]
  /\ ev' = Quiet
  /\ UNCHANGED <<qvars, prod, tasks, published, dispatched, limits, bvars, xvars>>

\* MemoryProducer.publish(body): queue.enqueue; throws ConnectionError when not connected
Publish ==
  /\ prod.connected
  /\ Len(published) < limits.publishes
  /\ mq' = enqueue(mq, "q", Len(published), "k", OrigHeaders, now)
  /\ published' = Append(published, enqueuedId(mq))
  /\ ev' = Quiet
  /\ UNCHANGED <<now, deliveries, requeues, enqRun, runBase, prod, cons, tasks, dispatched, limits, bvars, xvars>>

\* MemoryConsumer.subscribe(handler, {autoAck}) with a handler of kind h; the model
\* subscribes once. Throws ConnectionError when not connected.
subscribe(h) ==
  /\ cons.connected
  /\ ~cons.polling
  /\ \E a \in BOOLEAN :
       cons' = [cons EXCEPT !.running = TRUE, !.polling = TRUE, !.autoAck = a, !.handler = h]
  /\ ev' = Quiet
  /\ UNCHANGED <<qvars, prod, tasks, published, dispatched, limits, bvars, xvars>>

\* subscribe with a handler that leaves the settling to the adapter
Subscribe == \E h \in {"returns", "throws"} : subscribe(h)

\* subscribe with a handler that calls message.ack() / message.nack() itself
SubscribeSettling == subscribe("settles")

\* MemoryConsumer.pause(): super.pause() sets _paused, then running = false
Pause ==
  /\ cons' = [cons EXCEPT !.paused = TRUE, !.running = FALSE]
  /\ ev' = Quiet
  /\ UNCHANGED <<qvars, prod, tasks, published, dispatched, limits, bvars, xvars>>

\* MemoryConsumer.resume(): super.resume() clears _paused, then running = true
Resume ==
  /\ cons' = [cons EXCEPT !.paused = FALSE, !.running = TRUE]
  /\ ev' = Quiet
  /\ UNCHANGED <<qvars, prod, tasks, published, dispatched, limits, bvars, xvars>>

\* A timer tick runs poll() up to its await: guard, dequeue, createWrappedMessage,
\* emit('message'), handler(message). A poll that returns early changes nothing.
Poll ==
  /\ cons.polling
  /\ polls(cons)
  /\ SumOver(deliveries, IdSpace) < limits.dispatches
  /\ LET d == dequeue(mq, "q", now)
     IN /\ d.message # 0
        /\ mq' = d.w
        /\ tasks' = tasks \cup {[msg |-> createWrappedMessage(d.w, d.message), calls |-> 0]}
        /\ dispatched' = Append(dispatched, d.message)
        /\ deliveries' = [deliveries EXCEPT ![d.message] = @ + 1]
  /\ ev' = Quiet
  /\ UNCHANGED <<now, requeues, enqRun, runBase, prod, cons, published, limits, bvars, xvars>>

\* the handler calls message.ack()
HandlerAck ==
  \E t \in tasks :
    /\ cons.handler = "settles"
    /\ t.calls < MaxHandlerCalls
    /\ mq' = onAck(mq, cons, t.msg.id)
    /\ tasks' = (tasks \ {t}) \cup {[t EXCEPT !.calls = @ + 1]}
    /\ ev' = Settled("ack", t, mq')
    /\ UNCHANGED <<now, deliveries, requeues, enqRun, runBase, prod, cons, published, dispatched, limits, bvars, xvars>>

\* the handler calls message.nack(requeue)
HandlerNack ==
  \E t \in tasks, requeue \in BOOLEAN :
    /\ cons.handler = "settles"
    /\ t.calls < MaxHandlerCalls
    /\ mq' = onNack(mq, cons, t.msg.id, requeue)
    /\ requeues' = IF requeue /\ mq' # mq
                   THEN [requeues EXCEPT ![t.msg.id] = @ + 1] ELSE requeues
    /\ tasks' = (tasks \ {t}) \cup {[t EXCEPT !.calls = @ + 1]}
    /\ ev' = Settled("nack", t, mq')
    /\ UNCHANGED <<now, deliveries, enqRun, runBase, prod, cons, published, dispatched, limits, bvars, xvars>>

\* the handler returns: poll resumes after `await handler(message)` and acks under autoAck
HandlerReturn ==
  \E t \in tasks :
    /\ cons.handler \in {"returns", "settles"}
    /\ mq' = IF cons.autoAck THEN onAck(mq, cons, t.msg.id) ELSE mq
    /\ tasks' = tasks \ {t}
    /\ ev' = IF cons.autoAck THEN Settled("ack", t, mq') ELSE Quiet
    /\ UNCHANGED <<now, deliveries, requeues, enqRun, runBase, prod, cons, published, dispatched, limits, bvars, xvars>>

\* the handler throws: poll's catch block emits 'error', then dead-letters or nacks with
\* requeue. this.queue.deadLetter() on a disconnected consumer is a call on null: the
\* TypeError leaves the catch block and rejects the promise of poll().
HandlerThrow ==
  \E t \in tasks :
    /\ cons.handler \in {"throws", "settles"}
    /\ IF deadLetters(mq, cons, t.msg.id)
       THEN /\ mq' = IF cons.connected
                     THEN deadLetter(mq, "q", t.msg.id, "dlq", HandlerError, now) ELSE mq
            /\ ev' = Quiet
            /\ UNCHANGED requeues
            /\ life' = [life EXCEPT !.errorEvents = @ + 1, !.handlerThrows = @ + 1,
                                    !.escaped = IF cons.connected THEN @ ELSE @ + 1]
       ELSE /\ mq' = onNack(mq, cons, t.msg.id, TRUE)
            /\ ev' = Settled("nack", t, mq')
            /\ requeues' = IF mq' # mq
                           THEN [requeues EXCEPT ![t.msg.id] = @ + 1] ELSE requeues
            /\ life' = [life EXCEPT !.errorEvents = @ + 1, !.handlerThrows = @ + 1]
    /\ tasks' = tasks \ {t}
    /\ UNCHANGED <<now, deliveries, enqRun, runBase, prod, cons, published, dispatched, limits, bvars, rt, bk, px, tp, qev, zvars>>

\* MemoryConsumer.disconnect(): returns at once when not connected; else running = false,
\* clearInterval, queue = null, _connected = false. Handlers in progress are left alone.
Disconnect ==
  /\ cons.connected
  /\ cons' = [cons EXCEPT !.running = FALSE, !.polling = FALSE, !.connected = FALSE]
  /\ life' = [life EXCEPT !.cut = @ \cup {t.msg.id : t \in tasks}, !.disconnected = TRUE]
  /\ ev' = Quiet
  /\ UNCHANGED <<qvars, prod, tasks, published, dispatched, limits, bvars, rt, bk, px, tp, qev, zvars>>

NextConsumer ==
  \/ ProducerConnect
  \/ ConsumerConnect
  \/ Publish
  \/ Subscribe
  \/ Pause
  \/ Resume
  \/ Poll
  \/ HandlerReturn
  \/ HandlerThrow

NextSettling ==
  \/ ProducerConnect
  \/ ConsumerConnect
  \/ Publish
  \/ Subscribe
  \/ SubscribeSettling
  \/ Pause
  \/ Resume
  \/ Poll
  \/ HandlerAck
  \/ HandlerNack
  \/ HandlerReturn
  \/ HandlerThrow

\* a producer and a consumer whose handler leaves the settling to the adapter
SpecConsumer == InitConsumer /\ [][NextConsumer]_vars

NextLifecycle ==
  \/ ProducerConnect
  \/ ConsumerConnect
  \/ Disconnect
  \/ Publish
  \/ Subscribe
  \/ Pause
  \/ Resume
  \/ Poll
  \/ HandlerReturn
  \/ HandlerThrow

\* the same producer and consumer, the consumer also disconnecting and connecting again
SpecLifecycle == InitLifecycle /\ [][NextLifecycle]_vars

\* the same with any handler, under smaller bounds
SpecSettling == InitSettling /\ [][NextSettling]_vars

----------------------------------------------------------------------------
(* Claims about MemoryQueue, checked under SpecQueue *)

\* C3: delivery-attempt accounting. The deliveryAttempt a stored message reports is the
\* number of times dequeue() has returned it: n on its n-th delivery. A message in
\* flight has been delivered at least once, so it reports at least 1, and after k
\* successful nack(id, true) its (k+1)-th delivery reports at least k+1.
C3_DeliveryAttemptCounts ==
  \A id \in 1..Len(mq.store) :
    /\ mq.store[id].deliveryAttempt = deliveries[id]
    /\ id \in mq.processing["q"] =>
         /\ mq.store[id].deliveryAttempt >= 1
         /\ mq.store[id].deliveryAttempt >= requeues[id] + 1

\* C3 witness: a message nacked-with-requeue twice is in flight on its third delivery
C3_Witness ==
  \E id \in 1..Len(mq.store) :
    /\ id \in mq.processing["q"]
    /\ requeues[id] = 2
    /\ deliveries[id] = 3

\* the last n elements of a sequence
LastN(s, n) == SubSeq(s, Len(s) - n + 1, Len(s))

----------------------------------------------------------------------------
(* Claims about the producer and the consumer *)

\* C1: FIFO. As long as no message was nacked with requeue (by the handler or by the
\* adapter after a throw) - the queue has neither capacity nor age limit here - the
\* handler has been invoked with the published messages in the order of their publication:
\* the dispatch log is a prefix of the publish log.
C1_FifoDispatch ==
  SumOver(requeues, IdSpace) = 0 =>
    /\ Len(dispatched) <= Len(published)
    /\ dispatched = SubSeq(published, 1, Len(dispatched))

\* C1 witness: three messages were published and all three handed to the handler
C1_Witness ==
  /\ SumOver(requeues, IdSpace) = 0
  /\ Len(published) = 3
  /\ dispatched = published

\* C2: ack idempotence. An ack() or nack() call on an envelope that was settled before
\* leaves the stored sequences, the in-flight maps and the DLQ as they were.
C2_RepeatedSettleIsNoOp == ev.repeat => ~ev.changed

\* the DLQ records made from message id: same body, x-original-queue = "q"
DlqCopies(id) ==
  {i \in 1..Len(mq.messages["dlq"]) :
     /\ mq.store[mq.messages["dlq"][i]].body = mq.store[id].body
     /\ mq.store[mq.messages["dlq"][i]].headers["x-original-queue"] = "q"}

InSequence(id, qn) == \E i \in 1..Len(mq.messages[qn]) : mq.messages[qn][i] = id

BeingHandled(id) == \E t \in tasks : t.msg.id = id

\* C4: DLQ threshold. With the DLQ enabled, maxDeliveryAttempts = N and a handler that
\* always throws, a published message is never dispatched more than N times; it has a
\* record on the DLQ (exactly one) exactly when its N-th dispatch has failed, not before;
\* and from then on it is neither stored in the source queue nor in flight.
C4_DlqAtNthFailure ==
  (cons.dlq /\ cons.handler = "throws") =>
    \A i \in 1..Len(published) :
      LET id == published[i]
      IN /\ deliveries[id] <= MaxDeliveryAttemptsN
         /\ Cardinality(DlqCopies(id)) <= 1
         /\ DlqCopies(id) # {} <=> (deliveries[id] = MaxDeliveryAttemptsN /\ ~BeingHandled(id))
         /\ DlqCopies(id) # {} => ~InSequence(id, "q") /\ id \notin mq.processing["q"]

\* C4 witness: a message is on the DLQ after N failed dispatches while another one,
\* dispatched fewer times, is not
C4_Witness ==
  /\ cons.dlq /\ cons.handler = "throws"
  /\ \E i, j \in 1..Len(published) :
       /\ DlqCopies(published[i]) # {}
       /\ deliveries[published[i]] = MaxDeliveryAttemptsN
       /\ deliveries[published[j]] = MaxDeliveryAttemptsN - 1
       /\ DlqCopies(published[j]) = {}
       /\ ~BeingHandled(published[j])

\* C5: pause/resume. From a state in which pause() has returned and resume() has not been
\* called, no step dequeues a message or starts a handler invocation (handlers in progress
\* may finish); and once the consumer is subscribed and not paused (again), its poll tick
\* passes the guard and dequeues what waits in the queue.
C5_NoDispatchWhilePaused ==
  [][/\ cons.paused =>
          /\ dispatched' = dispatched
          /\ deliveries' = deliveries
          /\ {t.msg : t \in tasks'} \subseteq {t.msg : t \in tasks}
     /\ (cons'.polling /\ ~cons'.paused) => polls(cons')]_vars

\* C5 witness: the consumer is subscribed and paused, a message waits in the queue and a
\* handler started before the pause is still running
C5_Witness ==
  /\ cons.polling /\ cons.paused
  /\ mq.messages["q"] # <<>>
  /\ tasks # {}

----------------------------------------------------------------------------
(* SpecBreaker: one CircuitBreaker, callers whose operations overlap *)

InitBreaker ==
  /\ NoConsumer
  /\ NoExtras
  /\ mq = NewQueues(0, 0)
  /\ now = 1
  /\ deliveries = [id \in IdSpace |-> 0]
  /\ requeues = [id \in IdSpace |-> 0]
  /\ enqRun = <<>>
  /\ runBase = 0
  /\ \E enabled \in BOOLEAN :
       /\ breaker = NewBreaker(enabled)
       /\ bev = BreakerEvent("none", NewBreaker(enabled), 1, "none", FALSE, NoMetrics)
  /\ pending = {}
  /\ started = 0
  /\ failureLog = <<>>
  /\ closedAt = 0
  /\ streak = 0
  /\ period = 0

\* history kept by every breaker step that takes the breaker from b to c
BecameHalfOpen(b, c) == c.state = "half-open" /\ b.state # "half-open"

\* breaker.execute(operation) up to the first await: the operation is invoked and left
\* pending, or CircuitOpenError is thrown
Execute ==
  /\ started < MaxRequests
  /\ LET r == execute(breaker, now)
     IN /\ breaker' = r.b
        /\ started' = started + 1
        /\ period' = IF BecameHalfOpen(breaker, r.b) THEN period + 1 ELSE period
        /\ streak' = IF BecameHalfOpen(breaker, r.b) THEN 0 ELSE streak
        /\ pending' = IF r.invoked
                      THEN pending \cup {[n |-> started + 1,
                                          period |-> IF r.b.state = "half-open" THEN period' ELSE 0]}
                      ELSE pending
        /\ bev' = BreakerEvent("execute", breaker, now, r.error, pending' # pending, NoMetrics)
  /\ UNCHANGED <<failureLog, closedAt>>
  /\ UNCHANGED <<qvars, cvars, xvars>>

\* a pending operation resolves: execute() resumes and calls onSuccess()
OpSucceeds ==
  \E p \in pending :
    /\ pending' = pending \ {p}
    /\ breaker' = IF breaker.enabled THEN onSuccess(breaker) ELSE breaker
    /\ streak' = IF breaker.enabled /\ breaker.state = "half-open" THEN streak + 1 ELSE streak
    /\ closedAt' = IF breaker'.state = "closed" /\ breaker.state # "closed"
                   THEN Len(failureLog) ELSE closedAt
    /\ bev' = BreakerEvent(IF breaker.enabled THEN "success" ELSE "unguarded",
                           breaker, now, "none", FALSE, NoMetrics)
    /\ UNCHANGED <<started, failureLog, period>>
    /\ UNCHANGED <<qvars, cvars, xvars>>

\* a pending operation rejects: execute() resumes, calls onFailure() and rethrows
OpFails ==
  \E p \in pending :
    /\ pending' = pending \ {p}
    /\ breaker' = IF breaker.enabled THEN onFailure(breaker, now) ELSE breaker
    /\ failureLog' = IF breaker.enabled THEN Append(failureLog, now) ELSE failureLog
    /\ bev' = BreakerEvent(IF breaker.enabled THEN "failure" ELSE "unguarded",
                           breaker, now, "operation", FALSE, NoMetrics)
    /\ UNCHANGED <<started, closedAt, streak, period>>
    /\ UNCHANGED <<qvars, cvars, xvars>>

\* breaker.reset()
Reset ==
  /\ breaker' = reset(breaker)
  /\ closedAt' = Len(failureLog)
  /\ bev' = BreakerEvent("reset", breaker, now, "none", FALSE, NoMetrics)
  /\ UNCHANGED <<pending, started, failureLog, streak, period>>
  /\ UNCHANGED <<qvars, cvars, xvars>>

\* breaker.trip()
Trip ==
  /\ breaker' = trip(breaker, now)
  /\ bev' = BreakerEvent("trip", breaker, now, "none", FALSE, NoMetrics)
  /\ UNCHANGED <<pending, started, failureLog, closedAt, streak, period>>
  /\ UNCHANGED <<qvars, cvars, xvars>>

\* breaker.getMetrics()
GetMetrics ==
  /\ breaker' = getMetrics(breaker, now).b
  /\ bev' = BreakerEvent("getMetrics", breaker, now, "none", FALSE, getMetrics(breaker, now).metrics)
  /\ UNCHANGED <<pending, started, failureLog, closedAt, streak, period>>
  /\ UNCHANGED <<qvars, cvars, xvars>>

\* Date.now() advances
BTick ==
  /\ now < BreakerMaxTime
  /\ now' = now + 1
  /\ bev' = BreakerEvent("tick", breaker, now, "none", FALSE, NoMetrics)
  /\ UNCHANGED <<breaker, pending, started, failureLog, closedAt, streak, period>>
  /\ UNCHANGED <<mq, deliveries, requeues, enqRun, runBase, cvars, xvars>>

NextBreaker ==
  \/ Execute
  \/ OpSucceeds
  \/ OpFails
  \/ Reset
  \/ Trip
  \/ GetMetrics
  \/ BTick

SpecBreaker == InitBreaker /\ [][NextBreaker]_vars

----------------------------------------------------------------------------
(* Claims about the circuit breaker *)

\* the failures told to the breaker, from position k of the log on, that are less than
\* failureWindow old at time t
RECURSIVE FailuresWithin(_, _)
FailuresWithin(k, t) ==
  IF k > Len(failureLog) THEN 0
  ELSE (IF t - failureLog[k] < FailureWindow THEN 1 ELSE 0) + FailuresWithin(k + 1, t)

\* C7 as stated: after an operation fails while the breaker is closed, the breaker is open
\* iff the failures of the last failureWindow ticks, this one included, are at least
\* failureThreshold - whenever they happened, also before a reset() or a closing.
C7_OpenIffFailuresInWindow ==
  (bev.op = "failure" /\ bev.from = "closed") =>
    (breaker.state = "open" <=> FailuresWithin(1, now) >= FailureThreshold)

\* C7 amended: after an operation fails while the breaker is closed, the breaker is open
\* iff the failures reported since the breaker was last put into closed (construction,
\* reset(), closing from half-open) that are less than failureWindow old, this one
\* included, are at least failureThreshold; otherwise it is still closed. Successes
\* reported in between do not change the count.
C7_OpenIffFailuresSinceClosed ==
  (bev.op = "failure" /\ bev.from = "closed") =>
    /\ breaker.state = "open" <=> FailuresWithin(closedAt + 1, now) >= FailureThreshold
    /\ breaker.state \in {"open", "closed"}

\* C7 witness: a failure in closed leaves the breaker closed although failureThreshold
\* failures were reported since it was last closed, one of them too old to count
C7_Witness ==
  /\ bev.op = "failure" /\ bev.from = "closed"
  /\ breaker.state = "closed"
  /\ Len(failureLog) - closedAt >= FailureThreshold

\* C7 second witness: a failure in closed opens the breaker
C7_WitnessOpens ==
  /\ bev.op = "failure" /\ bev.from = "closed"
  /\ breaker.state = "open"
  /\ closedAt > 0

\* C8: with the breaker enabled, an execute() call that finds the breaker open less than resetTimeout after
\* lastFailureTime throws CircuitOpenError, does not invoke the operation and leaves the
\* breaker open.
C8_OpenFailsFast ==
  (/\ breaker.enabled /\ bev.op = "execute" /\ bev.from = "open"
   /\ bev.elapsed # -1 /\ bev.elapsed < ResetTimeout) =>
    /\ bev.error = "CircuitOpenError"
    /\ ~bev.invoked
    /\ breaker.state = "open"

\* C8 witness: a call rejected one tick before resetTimeout has elapsed
C8_Witness ==
  /\ breaker.enabled
  /\ bev.op = "execute" /\ bev.from = "open"
  /\ bev.elapsed = ResetTimeout - 1
  /\ bev.error = "CircuitOpenError"

\* C9: with the breaker enabled, an execute() call that finds the breaker open when resetTimeout or more has elapsed
\* since lastFailureTime makes it half-open with the success counter at 0, and invokes
\* the operation.
C9_HalfOpenAfterResetTimeout ==
  (breaker.enabled /\ bev.op = "execute" /\ bev.from = "open" /\ bev.elapsed >= ResetTimeout) =>
    /\ breaker.state = "half-open"
    /\ breaker.successes = 0
    /\ bev.invoked
    /\ bev.error = "none"

\* C9 witness: a call admitted exactly resetTimeout after lastFailureTime
C9_Witness ==
  /\ breaker.enabled
  /\ bev.op = "execute" /\ bev.from = "open"
  /\ bev.elapsed = ResetTimeout
  /\ breaker.state = "half-open"
  /\ bev.invoked

\* C10: when an operation succeeds while the breaker is half-open, the breaker closes,
\* with an empty failure log and the success counter at 0, if this is the
\* successThreshold-th success reported since it became half-open; after fewer it is
\* still half-open and the success counter is their number.
C10_ClosesAfterSuccessThreshold ==
  (bev.op = "success" /\ bev.from = "half-open") =>
    IF streak >= SuccessThreshold
    THEN /\ streak = SuccessThreshold
         /\ breaker.state = "closed"
         /\ breaker.failures = <<>>
         /\ breaker.successes = 0
    ELSE /\ breaker.state = "half-open"
         /\ breaker.successes = streak

\* C10 witness: the success that closes the breaker, whose failure log was not empty
\* before
C10_Witness ==
  /\ bev.op = "success" /\ bev.from = "half-open"
  /\ streak = SuccessThreshold
  /\ breaker.state = "closed"
  /\ Len(failureLog) > 0
  /\ closedAt = Len(failureLog)

\* C11: when an operation fails while the breaker is half-open, the breaker is open again
\* and lastFailureTime is the time of that failure, so that an execute() made now would
\* fail fast: resetTimeout has to elapse again, counted from this failure.
C11_HalfOpenFailureReopens ==
  (bev.op = "failure" /\ bev.from = "half-open") =>
    /\ breaker.state = "open"
    /\ breaker.lastFailureTime = now
    /\ ~shouldAttemptReset(breaker, now)
    /\ execute(breaker, now).error = "CircuitOpenError"

\* C11 witness: one failure reopens a half-open breaker that had already seen a success,
\* later than the failure that had opened it
C11_Witness ==
  /\ bev.op = "failure" /\ bev.from = "half-open"
  /\ breaker.state = "open"
  /\ streak = 1
  /\ bev.elapsed >= ResetTimeout

----------------------------------------------------------------------------
(* SpecBackoff: the backoff functions applied to drawn options, attempts and draws *)

\* the queue as the specifications without a queue leave it
IdleQueue ==
  /\ mq = NewQueues(0, 0)
  /\ now = 1
  /\ deliveries = [id \in IdSpace |-> 0]
  /\ requeues = [id \in IdSpace |-> 0]
  /\ enqRun = <<>>
  /\ runBase = 0

InitBackoff ==
  /\ IdleQueue
  /\ NoConsumer
  /\ NoBreaker
  /\ NoRetry
  /\ NoOthers
  /\ \E o \in BackoffOptions :
       bk = [fn |-> "none", attempt |-> 0, draw |-> 0, delay |-> 0, options |-> o]

\* calculateDelay(attempt, options) of utils/backoff.ts
CalculateDelay ==
  /\ \E n \in 1..MaxAttempt, r \in Draws :
       bk' = [bk EXCEPT !.fn = "calculateDelay", !.attempt = n, !.draw = r,
                        !.delay = calculateDelay(n, bk.options, r)]
  /\ UNCHANGED <<qvars, cvars, bvars, rt, yvars>>

\* calculateBackoff(attempt, config) of middleware/retry.ts
CalculateBackoff ==
  /\ \E n \in 1..MaxAttempt, r \in Draws :
       bk' = [bk EXCEPT !.fn = "calculateBackoff", !.attempt = n, !.draw = r,
                        !.delay = calculateBackoff(n, bk.options, r)]
  /\ UNCHANGED <<qvars, cvars, bvars, rt, yvars>>

NextBackoff ==
  \/ CalculateDelay
  \/ CalculateBackoff

SpecBackoff == InitBackoff /\ [][NextBackoff]_vars

----------------------------------------------------------------------------
(* SpecRetry: one withRetry(operation, options) call, the operation's results and the *)
(* abort signal                                                                       *)

InitRetry ==
  /\ IdleQueue
  /\ NoConsumer
  /\ NoBreaker
  /\ NoBackoff
  /\ NoOthers
  /\ \E maxRetries \in 0..MaxRetriesBound, signal \in BOOLEAN, onRetry \in BOOLEAN,
        pred \in {"default", "never"}, jitter \in BOOLEAN :
       rt = NewRetry(maxRetries, signal, onRetry, pred, jitter)

\* withRetry() is called: the first pass through the head of the loop
WithRetry ==
  /\ rt.pc = "idle"
  /\ rt' = attemptStart(rt, 1)
  /\ UNCHANGED <<qvars, cvars, bvars, bk, yvars>>

\* operation() resolves
OperationResolves ==
  /\ rt.pc = "operation"
  /\ rt' = returns(rt)
  /\ UNCHANGED <<qvars, cvars, bvars, bk, yvars>>

\* operation() rejects
OperationRejects ==
  /\ rt.pc = "operation"
  /\ \E error \in Errors, draw \in Draws : rt' = caught(rt, error, draw)
  /\ UNCHANGED <<qvars, cvars, bvars, bk, yvars>>

\* the promise of onRetry() resolves
OnRetryReturns ==
  /\ rt.pc = "onRetry"
  /\ rt' = sleep(rt)
  /\ UNCHANGED <<qvars, cvars, bvars, bk, yvars>>

\* the timer of sleep() fires
SleepEnds ==
  /\ rt.pc = "sleeping"
  /\ rt' = sleepEnds(rt)
  /\ UNCHANGED <<qvars, cvars, bvars, bk, yvars>>

\* controller.abort()
Abort ==
  /\ rt.signal /\ ~rt.aborted
  /\ rt' = abort(rt)
  /\ UNCHANGED <<qvars, cvars, bvars, bk, yvars>>

NextRetry ==
  \/ WithRetry
  \/ OperationResolves
  \/ OperationRejects
  \/ OnRetryReturns
  \/ SleepEnds
  \/ Abort

SpecRetry == InitRetry /\ [][NextRetry]_vars

----------------------------------------------------------------------------
(* Claims about withRetry and the backoff functions *)

\* the errors the claims call retryable: the predicate in use returns true for them
RetryableForClaim(e) ==
  rt.isRetryable = "default" /\ e.name \in {"ConnectionError", "ETIMEDOUT"}

TotalAttempts == rt.maxRetries + 1

\* C12: retry exhaustion. The operation is never invoked more than maxRetries + 1 times.
\* When withRetry has ended with an error and the signal never fired: if every attempt
\* failed with a retryable error, the operation was invoked exactly maxRetries + 1 times
\* and the error thrown is the one of the last attempt; if the first attempt failed with
\* a non-retryable error, the operation was invoked exactly once and that error is thrown.
C12_RetryExhaustion ==
  /\ rt.invocations <= TotalAttempts
  /\ (rt.pc = "done" /\ ~rt.aborted /\ rt.outcome.kind = "error") =>
       /\ rt.invocations = Len(rt.errors)
       /\ rt.outcome.error = rt.errors[Len(rt.errors)]
       /\ rt.outcome.error.at = rt.invocations
       /\ (\A i \in 1..Len(rt.errors) : RetryableForClaim(rt.errors[i])) =>
            rt.invocations = TotalAttempts
       /\ ~RetryableForClaim(rt.errors[1]) => rt.invocations = 1

\* C12 witness: maxRetries = 2, three attempts failed with retryable errors, the third
\* error was thrown
C12_Witness ==
  /\ rt.pc = "done" /\ ~rt.aborted /\ rt.maxRetries = 2
  /\ rt.invocations = 3
  /\ \A i \in 1..Len(rt.errors) : RetryableForClaim(rt.errors[i])
  /\ rt.outcome.error.at = 3

\* C13: abort signal. Once the signal has fired no step invokes the operation or starts
\* a sleep; the step in which the signal fires during a sleep ends withRetry with the
\* error 'Aborted'; a withRetry called after the signal fired ends with 'Operation
\* aborted' without invoking the operation.
C13_AbortCancels ==
  [][/\ rt.aborted => (rt'.invocations = rt.invocations /\ rt'.sleeps = rt.sleeps)
     /\ (rt.pc = "sleeping" /\ rt'.aborted) =>
          /\ rt'.pc = "done"
          /\ rt'.outcome.kind = "error"
          /\ rt'.outcome.error.name = "Aborted"
     /\ (rt.pc = "idle" /\ rt.aborted /\ rt'.pc # "idle") =>
          /\ rt'.pc = "done"
          /\ rt'.invocations = 0
          /\ rt'.outcome.error.name = "Operation aborted"]_vars

\* C13 witness: the signal fired during the sleep after the first failed attempt
C13_Witness ==
  /\ rt.pc = "done" /\ rt.aborted
  /\ rt.outcome.error.name = "Aborted"
  /\ rt.sleeps = 1 /\ rt.invocations = 1

\* the failed attempts a sleep follows: retryable, and not the last attempt
RECURSIVE FailedBeforeSleep(_)
FailedBeforeSleep(k) ==
  IF k > Len(rt.errors) THEN 0
  ELSE (IF RetryableForClaim(rt.errors[k]) /\ rt.errors[k].at < TotalAttempts THEN 1 ELSE 0)
       + FailedBeforeSleep(k + 1)

\* C14: onRetry. With an onRetry callback, it has been called once for every failed
\* retryable attempt that was not the last one; the i-th call got attempt = i + 1,
\* maxAttempts = maxRetries + 1 and the error of attempt i; when every attempt failed
\* with a retryable error and the signal never fired, the attempts seen are
\* 2, 3, ..., maxRetries + 1. Without a callback nothing is recorded.
C14_OnRetryAttempts ==
  /\ Len(rt.retries) = (IF rt.onRetry THEN FailedBeforeSleep(1) ELSE 0)
  /\ \A i \in 1..Len(rt.retries) :
       /\ rt.retries[i].attempt = i + 1
       /\ rt.retries[i].maxAttempts = rt.maxRetries + 1
       /\ rt.retries[i].error = rt.errors[i]
  /\ (/\ rt.onRetry /\ rt.pc = "done" /\ ~rt.aborted /\ rt.outcome.kind = "error"
      /\ \A i \in 1..Len(rt.errors) : RetryableForClaim(rt.errors[i])) =>
       [i \in 1..Len(rt.retries) |-> rt.retries[i].attempt] = [i \in 1..rt.maxRetries |-> i + 1]

\* C14 witness: maxRetries = 2, every attempt failed, onRetry saw the attempts 2 and 3
C14_Witness ==
  /\ rt.onRetry /\ rt.pc = "done" /\ ~rt.aborted /\ rt.maxRetries = 2
  /\ Len(rt.retries) = 2
  /\ rt.retries[1].attempt = 2 /\ rt.retries[2].attempt = 3

\* C15: backoff cap. The delay a backoff function returned is at most maxDelayMs.
C15_DelayWithinCap == bk.fn # "none" => bk.delay <= bk.options.maxDelayMs

\* C15, the part that holds: without jitter, the strategies that cap (all but constant)
\* and calculateBackoff return at most maxDelayMs
C15_CapWithoutJitter ==
  (bk.fn # "none" /\ ~bk.options.jitter
     /\ (bk.fn = "calculateBackoff" \/ bk.options.strategy # "constant")) =>
    bk.delay <= bk.options.maxDelayMs

----------------------------------------------------------------------------
(* SpecProducer: a producer (in-memory or SQS) with its BaseAdapter circuit breaker. *)
(* The adapters never call breaker methods; trip() and reset() are the calls of a    *)
(* subclass or owner that reaches the protected circuitBreaker field.                *)

ProducerAdapters == {"memory", "sqs"}

InitProducer ==
  /\ IdleQueue
  /\ prod = [connected |-> FALSE]
  /\ cons = [connected |-> FALSE, paused |-> FALSE, running |-> FALSE, polling |-> FALSE,
             dlq |-> FALSE, autoAck |-> TRUE, handler |-> "none"]
  /\ tasks = {}
  /\ published = <<>>
  /\ dispatched = <<>>
  /\ ev = Quiet
  /\ limits = [publishes |-> MaxPublishes, dispatches |-> 0]
  /\ \E enabled \in BOOLEAN :
       /\ breaker = NewBreaker(enabled)
       /\ bev = BreakerEvent("none", NewBreaker(enabled), 1, "none", FALSE, NoMetrics)
  /\ pending = {}
  /\ started = 0
  /\ failureLog = <<>>
  /\ closedAt = 0
  /\ streak = 0
  /\ period = 0
  /\ NoRetry
  /\ NoBackoff
  /\ NoLife
  /\ NoTransport
  /\ qev = NoQueueEvent
  /\ reg = NoRegistry /\ sb = NoServiceBus /\ js = NoJson
  /\ \E a \in ProducerAdapters :
       px = [adapter |-> a, calls |-> 0, op |-> "none", open |-> FALSE, sends |-> 0,
             failed |-> FALSE, error |-> "none", touched |-> FALSE, sent |-> 0]

\* what a publish() call did, as px records it
Published(sends, failed, error, touched, sent) ==
  [px EXCEPT !.calls = @ + 1, !.op = "publish",
             !.open = breaker.enabled /\ execute(breaker, now).error = "CircuitOpenError",
             !.sends = sends, !.failed = failed, !.error = error, !.touched = touched,
             !.sent = sent]

\* MemoryProducer.disconnect() / SQSProducer.disconnect()
ProducerDisconnect ==
  /\ prod.connected
  /\ prod' = [prod EXCEPT !.connected = FALSE]
  /\ ev' = Quiet
  /\ UNCHANGED <<qvars, cons, tasks, published, dispatched, limits, bvars, xvars>>

\* MemoryProducer.publish(body): ConnectionError without a queue, else queue.enqueue()
MemoryPublish ==
  /\ px.adapter = "memory"
  /\ px.calls < limits.publishes
  /\ IF ~prod.connected
     THEN /\ px' = Published(0, FALSE, "ConnectionError", FALSE, px.sent)
          /\ UNCHANGED <<mq, published>>
     ELSE /\ mq' = enqueue(mq, "q", Len(published), "k", OrigHeaders, now)
          /\ published' = Append(published, enqueuedId(mq))
          /\ px' = Published(1, FALSE, "none", TRUE, px.sent)
  /\ UNCHANGED <<now, deliveries, requeues, enqRun, runBase, prod, cons, tasks, dispatched,
                 ev, limits, bvars, rt, bk, life, tp, qev, zvars>>

\* SQSProducer.publish(body): ConnectionError without a client; else client.send(command)
\* once; its rejection (here with any of Errors) is rethrown as PublishError
SqsPublish ==
  /\ px.adapter = "sqs"
  /\ px.calls < limits.publishes
  /\ IF ~prod.connected
     THEN px' = Published(0, FALSE, "ConnectionError", FALSE, px.sent)
     ELSE \/ px' = Published(1, FALSE, "none", TRUE, px.sent + 1)
          \/ \E e \in Errors : px' = Published(1, isRetryableError(e), "PublishError", TRUE, px.sent)
  /\ UNCHANGED <<qvars, cvars, bvars, rt, bk, life, tp, qev, zvars>>

NextProducer ==
  \/ ProducerConnect
  \/ ProducerDisconnect
  \/ MemoryPublish
  \/ SqsPublish
  \/ Trip
  \/ Reset
  \/ BTick

SpecProducer == InitProducer /\ [][NextProducer]_vars

\* C16: publish through resilience. A publish() made while the producer's enabled circuit
\* breaker rejects calls fails with CircuitOpenError and does not touch the backend; a
\* publish() whose send failed with a retryable error has invoked the send
\* maxRetries + 1 times before failing.
C16_PublishThroughResilience ==
  px.op = "publish" =>
    /\ px.open => (px.error = "CircuitOpenError" /\ ~px.touched /\ px.sends = 0)
    /\ (~px.open /\ px.failed) => px.sends = DefaultRetryConfig.maxRetries + 1

\* C16, what the code does instead: publish() never consults the breaker and invokes the
\* send at most once
C16_PublishIsDirect ==
  /\ px.op = "publish" =>
       /\ px.sends <= 1
       /\ px.error \in {"none", "ConnectionError", "PublishError"}
       /\ px.touched <=> px.sends = 1
  /\ breaker.totalRequests = 0

----------------------------------------------------------------------------
(* Claims about the in-memory consumer's error handling and disconnect *)

\* what C17 asks of a state: no error has left a poll callback (nothing reaches the caller
\* of subscribe()); one 'error' event has been emitted per handler invocation that threw;
\* and every message dispatched to the throwing handler whose failure has been handled is
\* unacknowledged, not in flight, and either stored in the queue again or on the DLQ
HandlerThrowContained ==
  /\ life.escaped = 0
  /\ life.errorEvents = life.handlerThrows
  /\ cons.handler = "throws" =>
       \A i \in 1..Len(dispatched) :
         LET id == dispatched[i]
         IN ~BeingHandled(id) =>
              /\ ~mq.store[id].acknowledged
              /\ id \notin mq.processing["q"]
              /\ InSequence(id, "q") \/ DlqCopies(id) # {}

\* C17: handler failure. After a handler invocation threw, the error has not left the poll
\* callback, exactly one 'error' event was emitted for it, and the message is unacknowledged
\* and back in the queue or on the DLQ, never gone; the subscription keeps polling for as
\* long as the consumer is not disconnected.
C17_HandlerThrowContained ==
  /\ HandlerThrowContained
  /\ (life.handlerThrows > 0 /\ ~life.disconnected) => cons.polling

\* C17, the part that holds: the same for a consumer on which disconnect() was never called
C17_ContainedWhileConnected ==
  ~life.disconnected => (HandlerThrowContained /\ (life.handlerThrows > 0 => cons.polling))

\* a state C17_ContainedWhileConnected speaks about: three handler invocations threw; one
\* message is on the DLQ and another is back in the queue after its failure
C17_ConnectedCase ==
  /\ ~life.disconnected
  /\ cons.handler = "throws" /\ life.handlerThrows = 3 /\ life.errorEvents = 3
  /\ \E i, j \in 1..Len(dispatched) :
       /\ DlqCopies(dispatched[i]) # {}
       /\ InSequence(dispatched[j], "q") /\ requeues[dispatched[j]] = 1

\* C20: disconnect releases. No error escapes a poll callback, and a message whose handler
\* was running when disconnect() was called is out of the in-flight map once that handler
\* has returned or thrown; with the consumer disconnected and no handler running,
\* processingCount is 0.
C20_DisconnectReleases ==
  /\ life.escaped = 0
  /\ \A id \in life.cut : ~BeingHandled(id) => id \notin mq.processing["q"]
  /\ (~cons.connected /\ tasks = {}) => processingCount(mq, "q") = 0

\* C20, the part that holds: a disconnected consumer dequeues nothing and starts no handler
C20_NoDequeueAfterDisconnect ==
  [][~cons.connected => (deliveries' = deliveries /\ dispatched' = dispatched)]_vars

----------------------------------------------------------------------------
(* SpecTransport: the RabbitMQ, NATS, Kafka and SQS consumers, subscribed with the     *)
(* default options (autoAck = true), and their brokers.                                *)
(*                                                                                     *)
(* The broker side of tp: ready is what the broker will deliver next, unacked what it  *)
(* has delivered and still waits for (RabbitMQ unacked, NATS ack pending, SQS in       *)
(* flight/invisible, Kafka fetched and not resolved), done what it will not deliver    *)
(* again to this consumer (acked, deleted, or the Kafka offset resolved for the        *)
(* auto-commit). The adapter side: paused, receiving (SQS: a ReceiveMessage call is    *)
(* awaited), batch (SQS: result.Messages not yet looked at), handling (messages whose  *)
(* handler is running). History: handovers, returned (messages whose handler returned  *)
(* normally), skipped (messages handed over while paused and not handed over again      *)
(* since), redelivered (messages handed over again after their handler had returned),   *)
(* thrown (SpecBatch: messages whose batch handler threw and that were not handed over  *)
(* again since), discarded (SpecNack: messages whose envelope got nack(false)).         *)

ConsumerAdapters == {"rabbitmq", "nats", "kafka", "sqs"}

Range(seq) == {seq[i] : i \in 1..Len(seq)}

InitTransport ==
  /\ IdleQueue
  /\ NoConsumer
  /\ NoBreaker
  /\ NoRetry
  /\ NoBackoff
  /\ NoLife
  /\ NoPublish
  /\ qev = NoQueueEvent
  /\ reg = NoRegistry /\ sb = NoServiceBus /\ js = NoJson
  /\ \E a \in ConsumerAdapters :
       tp = [adapter |-> a, subscribed |-> FALSE, paused |-> FALSE, receiving |-> FALSE,
             ready |-> [i \in 1..MaxBrokerMessages |-> i], unacked |-> {}, done |-> {},
             batch |-> <<>>, handling |-> {}, handovers |-> 0, returned |-> {},
             skipped |-> {}, redelivered |-> {}, thrown |-> {},
             discarded |-> {}]

\* the broker takes the next ready message for delivery
taken(t) ==
  [t EXCEPT !.ready = Tail(@), !.unacked = @ \cup {Head(t.ready)}, !.handovers = @ + 1,
            !.skipped = @ \ {Head(t.ready)},
            !.redelivered = IF Head(t.ready) \in t.returned THEN @ \cup {Head(t.ready)} ELSE @]

\* the adapter's callback calls handler(message) for id
handlerCalled(t, id) == [t EXCEPT !.handling = @ \cup {id}]

\* channel.nack(msg, false, true) and jsMsg.nak(): the broker takes the message back; it
\* is the next one it delivers
released(t, id) ==
  [t EXCEPT !.unacked = @ \ {id}, !.ready = <<id>> \o @, !.skipped = @ \cup {id}]

\* the broker is told, or takes it, that id was processed: channel.ack, jsMsg.ack,
\* DeleteMessage, or eachMessage returning to a runner that auto-commits
processed(t, id) == [t EXCEPT !.unacked = @ \ {id}, !.done = @ \cup {id}]

\* the end of a handler invocation: outcome is "returns" or "throws"
handlerEnded(t, id, outcome) ==
  [t EXCEPT !.handling = @ \ {id},
            !.returned = IF outcome = "returns" THEN @ \cup {id} ELSE @]

TUnchanged == UNCHANGED <<qvars, cvars, bvars, rt, bk, life, px, qev, zvars>>

\* subscribe(handler) with default options
TSubscribe ==
  /\ ~tp.subscribed
  /\ tp' = [tp EXCEPT !.subscribed = TRUE]
  /\ TUnchanged

\* pause(): BaseConsumer sets _paused (the Kafka consumer also asks the client to stop
\* fetching, which does not take back what the client already holds)
TPause ==
  /\ ~tp.paused
  /\ tp' = [tp EXCEPT !.paused = TRUE]
  /\ TUnchanged

\* resume()
TResume ==
  /\ tp.paused
  /\ tp' = [tp EXCEPT !.paused = FALSE]
  /\ TUnchanged

\* RabbitMQ: the consume callback runs for the next delivery (deliveries overlap up to the
\* prefetch count): paused -> channel.nack(msg, false, true); else handler(message)
RabbitDeliver ==
  /\ tp.adapter = "rabbitmq" /\ tp.subscribed
  /\ tp.ready # <<>> /\ tp.handovers < MaxHandovers
  /\ LET id == Head(tp.ready)
     IN tp' = IF tp.paused THEN released(taken(tp), id) ELSE handlerCalled(taken(tp), id)
  /\ TUnchanged

\* RabbitMQ: the handler returns or throws; the callback logs a throw and acks nothing
RabbitHandlerEnds ==
  /\ tp.adapter = "rabbitmq"
  /\ \E id \in tp.handling, outcome \in {"returns", "throws"} :
       tp' = handlerEnded(tp, id, outcome)
  /\ TUnchanged

\* NATS: the for-await loop of processMessages takes the next message:
\* paused -> jsMsg.nak(); else handler(message)
NatsDeliver ==
  /\ tp.adapter = "nats" /\ tp.subscribed
  /\ tp.handling = {}
  /\ tp.ready # <<>> /\ tp.handovers < MaxHandovers
  /\ LET id == Head(tp.ready)
     IN tp' = IF tp.paused THEN released(taken(tp), id) ELSE handlerCalled(taken(tp), id)
  /\ TUnchanged

\* NATS: the handler returns or throws; the loop logs a throw and acks nothing
NatsHandlerEnds ==
  /\ tp.adapter = "nats"
  /\ \E id \in tp.handling, outcome \in {"returns", "throws"} :
       tp' = handlerEnded(tp, id, outcome)
  /\ TUnchanged

\* NATS JetStream (ack_policy explicit): ack_wait runs out for a message that was not
\* acked, the server delivers it again
NatsAckWait ==
  /\ tp.adapter = "nats"
  /\ \E id \in tp.unacked \ tp.handling :
       tp' = [tp EXCEPT !.unacked = @ \ {id}, !.ready = Append(@, id)]
  /\ TUnchanged

\* Kafka: the runner calls eachMessage for the next offset:
\* !running || paused -> return, which the runner takes as processed; else handler(message)
KafkaEachMessage ==
  /\ tp.adapter = "kafka" /\ tp.subscribed
  /\ tp.handling = {}
  /\ tp.ready # <<>> /\ tp.handovers < MaxHandovers
  /\ LET id == Head(tp.ready)
     IN tp' = IF tp.paused
              THEN [processed(taken(tp), id) EXCEPT !.skipped = @ \cup {id}]
              ELSE handlerCalled(taken(tp), id)
  /\ TUnchanged

\* Kafka: the handler returns, or throws and the catch block emits 'error'; eachMessage
\* returns either way and the runner resolves the offset (autoCommit = autoAck = true)
KafkaHandlerEnds ==
  /\ tp.adapter = "kafka"
  /\ \E id \in tp.handling, outcome \in {"returns", "throws"} :
       tp' = processed(handlerEnded(tp, id, outcome), id)
  /\ TUnchanged

\* SQS: the head of the poll loop, not paused: ReceiveMessage is sent and awaited
SqsPoll ==
  /\ tp.adapter = "sqs" /\ tp.subscribed
  /\ ~tp.paused /\ ~tp.receiving /\ tp.batch = <<>> /\ tp.handling = {}
  /\ tp.handovers < MaxHandovers
  /\ tp' = [tp EXCEPT !.receiving = TRUE]
  /\ TUnchanged

\* SQS: ReceiveMessage answers with the ready messages (at least one), now in flight
SqsReceived ==
  /\ tp.adapter = "sqs" /\ tp.receiving
  /\ tp.ready # <<>>
  /\ \E k \in 1..Len(tp.ready) :
       tp' = [tp EXCEPT !.receiving = FALSE,
                        !.batch = SubSeq(tp.ready, 1, k),
                        !.ready = SubSeq(tp.ready, k + 1, Len(tp.ready)),
                        !.unacked = @ \cup Range(SubSeq(tp.ready, 1, k)),
                        !.handovers = @ + 1,
                        !.skipped = @ \ Range(SubSeq(tp.ready, 1, k)),
                        !.redelivered = @ \cup (Range(SubSeq(tp.ready, 1, k)) \cap tp.returned)]
  /\ TUnchanged

\* SQS: the loop over result.Messages: paused -> break, the rest of the batch is let go
\* of without a call to the broker; else handler(message)
SqsNext ==
  /\ tp.adapter = "sqs"
  /\ tp.batch # <<>> /\ tp.handling = {}
  /\ tp' = IF tp.paused
           THEN [tp EXCEPT !.batch = <<>>, !.skipped = @ \cup Range(tp.batch)]
           ELSE [handlerCalled(tp, Head(tp.batch)) EXCEPT !.batch = Tail(@)]
  /\ TUnchanged

\* SQS: the handler returns and autoAck deletes the message, or it throws and the catch
\* block emits 'error'
SqsHandlerEnds ==
  /\ tp.adapter = "sqs"
  /\ \E id \in tp.handling :
       \/ tp' = processed(handlerEnded(tp, id, "returns"), id)
       \/ tp' = handlerEnded(tp, id, "throws")
  /\ TUnchanged

\* SQS: the visibility timeout of an in-flight message the adapter no longer holds runs out
SqsVisibilityTimeout ==
  /\ tp.adapter = "sqs"
  /\ \E id \in tp.unacked \ (tp.handling \cup Range(tp.batch)) :
       tp' = [tp EXCEPT !.unacked = @ \ {id}, !.ready = Append(@, id)]
  /\ TUnchanged

NextTransport ==
  \/ TSubscribe
  \/ TPause
  \/ TResume
  \/ RabbitDeliver
  \/ RabbitHandlerEnds
  \/ NatsDeliver
  \/ NatsHandlerEnds
  \/ NatsAckWait
  \/ KafkaEachMessage
  \/ KafkaHandlerEnds
  \/ SqsPoll
  \/ SqsReceived
  \/ SqsNext
  \/ SqsHandlerEnds
  \/ SqsVisibilityTimeout

SpecTransport == InitTransport /\ [][NextTransport]_vars

\* C18: auto-ack on return. For the RabbitMQ and NATS consumers subscribed with default
\* options, a message whose handler returned normally has been acknowledged by the
\* adapter: it is not in the broker's unacked set and is not delivered again.
C18_AutoAckOnReturn ==
  tp.adapter \in {"rabbitmq", "nats"} =>
    \A id \in tp.returned :
      /\ id \in tp.done
      /\ id \notin tp.unacked
      /\ id \notin tp.redelivered

\* C18, the part that holds: the in-memory consumer subscribed with autoAck and never
\* disconnected acks a message whose handler returned: it is acknowledged, out of the
\* in-flight map and was dispatched once
C18_MemoryAutoAck ==
  (cons.autoAck /\ cons.handler = "returns") =>
    \A i \in 1..Len(dispatched) :
      LET id == dispatched[i]
      IN ~BeingHandled(id) =>
           /\ mq.store[id].acknowledged
           /\ id \notin mq.processing["q"]
           /\ deliveries[id] = 1

\* C19: released while paused. For the RabbitMQ, Kafka and SQS consumers, a message handed
\* to the adapter while it was paused (and not handed over again since) is not marked
\* as processed, is not held by the adapter, and is still with the broker for redelivery.
C19_PausedHandoverReleased ==
  tp.adapter \in {"rabbitmq", "kafka", "sqs"} =>
    \A id \in tp.skipped :
      /\ id \notin tp.done
      /\ id \notin tp.handling /\ id \notin Range(tp.batch)
      /\ id \in Range(tp.ready) \cup tp.unacked

\* C19, the part that holds: the RabbitMQ consumer gives such a message straight back,
\* and it is the next one delivered
C19_RabbitRequeues ==
  tp.adapter = "rabbitmq" =>
    \A id \in tp.skipped : id \in Range(tp.ready) /\ id \notin tp.unacked /\ id \notin tp.done

----------------------------------------------------------------------------
(* Claims about the in-memory consumer's concurrency *)

\* DEFAULT_SUBSCRIBE_OPTIONS.concurrency
DefaultConcurrency == 1

\* C21: concurrency limit. At most `concurrency` (1 by default) handler invocations of
\* the consumer are in progress at any time.
C21_AtMostConcurrency == Cardinality(tasks) <= DefaultConcurrency

\* C21, what the code guarantees instead: every handler invocation in progress holds a
\* different message, and each of them is in the in-flight map
C21_OneTaskPerMessage ==
  /\ \A t, u \in tasks : t.msg.id = u.msg.id => t = u
  /\ \A t \in tasks : t.msg.id \in mq.processing["q"]

----------------------------------------------------------------------------
(* Claims about MemoryQueue's requeue order and dead-lettering *)

\* the message at the head of "q" has outlived maxAgeMs: the next cleanup() removes it
Expired(id) ==
  mq.maxAgeMs["q"] > 0 /\ now - mq.store[id].timestamp >= mq.maxAgeMs["q"]

\* the stored sequence keeps the messages that were requeued ahead of those that never
\* were, and the latter in their enqueue order (ids are given in enqueue order)
RequeuedAhead ==
  LET m == mq.messages["q"]
  IN \A i, j \in 1..Len(m) :
       i < j => /\ mq.store[m[j]].requeued => mq.store[m[i]].requeued
                /\ (~mq.store[m[i]].requeued /\ ~mq.store[m[j]].requeued) => m[i] < m[j]

\* C22 as stated: after a successful nack(id, true) the message is at the head of the
\* stored sequence and the next dequeue() returns it; requeued messages are stored ahead
\* of the never requeued ones, which keep their enqueue order.
C22_RequeuedIsNext ==
  /\ RequeuedAhead
  /\ qev.op = "nack" =>
       /\ Head(mq.messages["q"]) = qev.id
       /\ dequeue(mq, "q", now).message = qev.id

\* C22 amended: the same, the next dequeue() returning the requeued message unless it has
\* outlived maxAgeMs, in which case dequeue()'s cleanup removes it and it is not returned.
C22_RequeuedIsNextUnlessExpired ==
  /\ RequeuedAhead
  /\ qev.op = "nack" =>
       /\ Head(mq.messages["q"]) = qev.id
       /\ ~Expired(qev.id) => dequeue(mq, "q", now).message = qev.id
       /\ Expired(qev.id) => dequeue(mq, "q", now).message # qev.id

\* C22 witness: a message was requeued ahead of a stored message that never was, and the
\* next dequeue() returns it
C22_Witness ==
  /\ qev.op = "nack"
  /\ Len(mq.messages["q"]) >= 2
  /\ ~mq.store[mq.messages["q"][2]].requeued
  /\ dequeue(mq, "q", now).message = qev.id

\* the record a deadLetter call left at the tail of "dlq"
LastDeadLetter(w) == w.store[w.messages["dlq"][Len(w.messages["dlq"])]]

\* C25: deadLetter(id, dlq, err) on an in-flight id removes it from the in-flight map and
\* appends exactly one record to dlq: a new message whose body and key are the original's
\* and whose headers are the original's plus x-original-queue = the source queue's name,
\* x-death-reason = the error's message ('max retries exceeded' without an error) and
\* x-delivery-attempts = deliveryAttempt in decimal; the source queue's stored sequence
\* does not change.
C25_DeadLetterRecord ==
  [][qev'.op = "deadLetter" =>
       LET id == qev'.id
           old == mq.store[id]
           d == mq'.messages["dlq"]
           r == LastDeadLetter(mq')
       IN /\ id \in mq.processing["q"]
          /\ mq'.processing["q"] = mq.processing["q"] \ {id}
          /\ mq'.messages["q"] = mq.messages["q"]
          /\ Len(mq'.store) = Len(mq.store) + 1
          /\ d # <<>> /\ d[Len(d)] = Len(mq'.store)
          /\ \A i \in 1..(Len(d) - 1) : d[i] <= Len(mq.store)
          /\ \A i \in 1..Len(mq.store) : mq'.store[i] = mq.store[i]
          /\ r.body = old.body /\ r.key = old.key
          /\ \A h \in DOMAIN old.headers : r.headers[h] = old.headers[h]
          /\ DOMAIN r.headers = DOMAIN old.headers \cup
               {"x-original-queue", "x-death-reason", "x-death-time", "x-delivery-attempts"}
          /\ r.headers["x-original-queue"] = "q"
          /\ r.headers["x-death-reason"] =
               (IF qev'.error = "undefined" THEN "max retries exceeded" ELSE qev'.error)
          /\ r.headers["x-delivery-attempts"] = ToString(old.deliveryAttempt)
  ]_vars

\* C25 witness: a message on its second delivery was dead-lettered with an error while
\* another message was stored in the source queue
C25_Witness ==
  /\ qev.op = "deadLetter" /\ qev.error = "Processing failed"
  /\ mq.store[qev.id].deliveryAttempt = 2
  /\ LastDeadLetter(mq).headers["x-delivery-attempts"] = "2"
  /\ mq.messages["q"] # <<>>

----------------------------------------------------------------------------
(* SpecRegistry: the module-level queue registry, one MemoryProducer and one *)
(* MemoryConsumer constructed with the same queueName, and the registry's    *)
(* exported functions called between their calls.                            *)

\* getQueue(name): the registered instance, 0 for undefined
getQueue(r) == r.queues

\* connect()'s "get or create": the registered instance, or a new MemoryQueue that
\* is registered
getOrCreate(r) ==
  IF getQueue(r) # 0
  THEN r
  ELSE [r EXCEPT !.stored = Append(@, <<>>), !.queues = Len(r.stored) + 1]

\* unregisterQueue(name): queues.delete(name)
unregisterQueue(r) == [r EXCEPT !.queues = 0]

\* clearAllQueues(): clear() on every registered queue, then queues.clear()
clearAllQueues(r) ==
  IF r.queues = 0 THEN r
  ELSE [r EXCEPT !.stored[r.queues] = <<>>, !.queues = 0]

InitRegistry ==
  /\ NoConsumer
  /\ NoBreaker
  /\ NoRetry /\ NoBackoff /\ NoLife /\ NoPublish /\ NoTransport
  /\ qev = NoQueueEvent /\ js = NoJson
  /\ mq = NewQueues(0, 0)
  /\ now = 1
  /\ deliveries = [id \in IdSpace |-> 0]
  /\ requeues = [id \in IdSpace |-> 0]
  /\ enqRun = <<>>
  /\ runBase = 0
  /\ reg = NoRegistry /\ sb = NoServiceBus

RegUnchanged == UNCHANGED <<qvars, cvars, bvars, rt, bk, life, px, tp, qev, js, sb>>

Called(r) == [r EXCEPT !.ops = @ + 1]

\* MemoryProducer.connect(): nothing when connected
RegProducerConnect ==
  /\ reg.ops < MaxRegistryOps
  /\ reg' = IF reg.producer # 0 THEN Called(reg)
            ELSE LET r == getOrCreate(reg) IN Called([r EXCEPT !.producer = getQueue(r)])
  /\ RegUnchanged

\* MemoryConsumer.connect(): nothing when connected
RegConsumerConnect ==
  /\ reg.ops < MaxRegistryOps
  /\ reg' = IF reg.consumer # 0 THEN Called(reg)
            ELSE LET r == getOrCreate(reg) IN Called([r EXCEPT !.consumer = getQueue(r)])
  /\ RegUnchanged

RegProducerDisconnect ==
  /\ reg.ops < MaxRegistryOps
  /\ reg' = Called([reg EXCEPT !.producer = 0])
  /\ RegUnchanged

RegConsumerDisconnect ==
  /\ reg.ops < MaxRegistryOps
  /\ reg' = Called([reg EXCEPT !.consumer = 0])
  /\ RegUnchanged

\* MemoryProducer.publish(): throws ConnectionError without a queue, else enqueues
RegPublish ==
  /\ reg.ops < MaxRegistryOps
  /\ reg' = IF reg.producer = 0 THEN Called(reg)
            ELSE Called([reg EXCEPT !.stored[reg.producer] = Append(@, reg.ops + 1),
                                    !.published = [message |-> reg.ops + 1,
                                                   queue |-> reg.producer]])
  /\ RegUnchanged

RegUnregisterQueue ==
  /\ reg.ops < MaxRegistryOps
  /\ reg' = Called(unregisterQueue(reg))
  /\ RegUnchanged

RegClearAllQueues ==
  /\ reg.ops < MaxRegistryOps
  /\ reg' = Called(clearAllQueues(reg))
  /\ RegUnchanged

NextRegistry ==
  \/ RegProducerConnect
  \/ RegConsumerConnect
  \/ RegProducerDisconnect
  \/ RegConsumerDisconnect
  \/ RegPublish
  \/ RegUnregisterQueue
  \/ RegClearAllQueues

SpecRegistry == InitRegistry /\ [][NextRegistry]_vars

\* the elements of a sequence
Elements(q) == {q[i] : i \in 1..Len(q)}

\* C23: a connected MemoryProducer and a connected MemoryConsumer of the same queueName
\* hold the same MemoryQueue instance, whatever the order of their connect() calls and
\* whatever registry calls were made between them; a message the producer published
\* while both are connected is in the consumer's queue.
C23_SameInstance ==
  (reg.producer # 0 /\ reg.consumer # 0) =>
     /\ reg.producer = reg.consumer
     /\ reg.published.queue = reg.producer =>
          reg.published.message \in Elements(reg.stored[reg.consumer])

\* what does hold: an instance the registry holds is one that was constructed, and a
\* connected adapter holds a constructed instance
C23_InstancesConstructed ==
  \A q \in {reg.queues, reg.producer, reg.consumer} : q \in 0..Len(reg.stored)

----------------------------------------------------------------------------
(* SpecBatch: subscribeBatch() of the in-memory, RabbitMQ and SQS consumers with the    *)
(* default autoAck = true and batchSize = MaxBatch, and a batch handler that returns or *)
(* throws without settling any message itself. tp is used as in SpecTransport, with     *)
(* ready the stored / ready messages, batch the messages the RabbitMQ callback has      *)
(* buffered, and handling the set of batches whose handler is running.                  *)

BatchAdapters == {"memory", "rabbitmq", "sqs"}

InitBatch ==
  /\ IdleQueue
  /\ NoConsumer
  /\ NoBreaker
  /\ NoRetry
  /\ NoBackoff
  /\ NoLife
  /\ NoPublish
  /\ qev = NoQueueEvent
  /\ reg = NoRegistry /\ sb = NoServiceBus /\ js = NoJson
  /\ \E a \in BatchAdapters :
       tp = [adapter |-> a, subscribed |-> FALSE, paused |-> FALSE, receiving |-> FALSE,
             ready |-> [i \in 1..MaxBrokerMessages |-> i], unacked |-> {}, done |-> {},
             batch |-> <<>>, handling |-> {}, handovers |-> 0, returned |-> {},
             skipped |-> {}, redelivered |-> {}, thrown |-> {},
             discarded |-> {}]

\* the first k ready messages are handed to the adapter and are in flight
takenBatch(t, k) ==
  [t EXCEPT !.ready = SubSeq(@, k + 1, Len(@)),
            !.unacked = @ \cup Range(SubSeq(t.ready, 1, k)),
            !.handovers = @ + 1,
            !.thrown = @ \ Range(SubSeq(t.ready, 1, k))]

\* handler(messages) is called
batchHandlerCalled(t, b) == [t EXCEPT !.handling = @ \cup {b}]

RECURSIVE releasedAll(_, _)
\* message.nack(true) / channel.nack(msg, false, true) for each message of the batch in turn
releasedAll(t, b) ==
  IF b = <<>> THEN t ELSE releasedAll(released(t, Head(b)), Tail(b))

RECURSIVE processedAll(_, _)
\* message.ack() for each message of the batch
processedAll(t, b) ==
  IF b = <<>> THEN t ELSE processedAll(processed(t, Head(b)), Tail(b))

\* the catch block of each adapter's batch path: the in-memory consumer and RabbitMQ
\* nack every message with requeue; SQS logs and emits 'error' only
batchCaught(t, b) ==
  IF t.adapter = "sqs"
  THEN [t EXCEPT !.thrown = @ \cup Range(b)]
  ELSE [releasedAll(t, b) EXCEPT !.thrown = @ \cup Range(b), !.skipped = t.skipped]

\* after handler(messages) returned: the in-memory consumer and SQS ack every message
\* (autoAck); RabbitMQ's processBatch does nothing more
batchReturned(t, b) ==
  [(IF t.adapter = "rabbitmq" THEN t ELSE processedAll(t, b))
     EXCEPT !.returned = @ \cup Range(b)]

BSubscribeBatch ==
  /\ ~tp.subscribed
  /\ tp' = [tp EXCEPT !.subscribed = TRUE]
  /\ TUnchanged

\* in-memory: a tick of setInterval(poll, batchTimeout): dequeueBatch(batchSize), nothing
\* when it is empty, else handler(messages); ticks do not wait for earlier handlers
MemoryPollBatch ==
  /\ tp.adapter = "memory" /\ tp.subscribed
  /\ tp.ready # <<>> /\ tp.handovers < MaxHandovers
  /\ LET k == IF Len(tp.ready) < MaxBatch THEN Len(tp.ready) ELSE MaxBatch
     IN tp' = batchHandlerCalled(takenBatch(tp, k), SubSeq(tp.ready, 1, k))
  /\ TUnchanged

\* RabbitMQ: the consume callback pushes the delivery onto batch; a full batch is
\* processed at once, otherwise the batch timer is (or stays) set
RabbitDeliverBatch ==
  /\ tp.adapter = "rabbitmq" /\ tp.subscribed
  /\ tp.ready # <<>> /\ tp.handovers < MaxHandovers
  /\ LET b == Append(tp.batch, Head(tp.ready))
     IN tp' = IF Len(b) >= MaxBatch
              THEN [batchHandlerCalled(takenBatch(tp, 1), b) EXCEPT !.batch = <<>>]
              ELSE [takenBatch(tp, 1) EXCEPT !.batch = b]
  /\ TUnchanged

\* RabbitMQ: the batch timer fires: processBatch() on what is buffered
RabbitBatchTimer ==
  /\ tp.adapter = "rabbitmq"
  /\ tp.batch # <<>>
  /\ tp' = [batchHandlerCalled(tp, tp.batch) EXCEPT !.batch = <<>>]
  /\ TUnchanged

\* SQS: pollBatch's loop: ReceiveMessage answers with up to batchSize ready messages, now
\* in flight, and handler(messages) is called; the loop awaits it
SqsReceiveBatch ==
  /\ tp.adapter = "sqs" /\ tp.subscribed
  /\ tp.handling = {}
  /\ tp.ready # <<>> /\ tp.handovers < MaxHandovers
  /\ \E k \in 1..(IF Len(tp.ready) < MaxBatch THEN Len(tp.ready) ELSE MaxBatch) :
       tp' = batchHandlerCalled(takenBatch(tp, k), SubSeq(tp.ready, 1, k))
  /\ TUnchanged

\* the batch handler returns or throws
BatchHandlerEnds ==
  /\ \E b \in tp.handling :
       \/ tp' = [batchReturned(tp, b) EXCEPT !.handling = @ \ {b}]
       \/ tp' = [batchCaught(tp, b) EXCEPT !.handling = @ \ {b}]
  /\ TUnchanged

\* SQS: the visibility timeout of an in-flight message whose handler has ended runs out
BatchVisibilityTimeout ==
  /\ tp.adapter = "sqs"
  /\ \E id \in tp.unacked \ UNION {Range(b) : b \in tp.handling} :
       tp' = [tp EXCEPT !.unacked = @ \ {id}, !.ready = Append(@, id)]
  /\ TUnchanged

NextBatch ==
  \/ BSubscribeBatch
  \/ MemoryPollBatch
  \/ RabbitDeliverBatch
  \/ RabbitBatchTimer
  \/ SqsReceiveBatch
  \/ BatchHandlerEnds
  \/ BatchVisibilityTimeout

SpecBatch == InitBatch /\ [][NextBatch]_vars

\* C24: after a batch handler threw, every message of its batch is released for
\* redelivery: none of them is in flight and none is acked (until it is handed over again).
C24_BatchThrowReleases ==
  \A id \in tp.thrown : id \notin tp.unacked /\ id \notin tp.done

\* the same for the in-memory and the RabbitMQ consumer alone
C24_MemoryAndRabbitRelease ==
  tp.adapter \in {"memory", "rabbitmq"} =>
    \A id \in tp.thrown : id \in Range(tp.ready) /\ id \notin tp.unacked \cup tp.done

----------------------------------------------------------------------------
(* Claims about the envelopes the in-memory consumer hands to its handler *)

\* createWrappedMessage: the envelope's id is the stored message's id
envelopeId(stored) == stored

\* C26: every envelope handed to a handler carries an id different from that of every
\* other delivery, earlier deliveries of the same message after a nack with requeue
\* included.
C26_DistinctEnvelopeIds ==
  \A i, j \in 1..Len(dispatched) :
    i # j => envelopeId(dispatched[i]) # envelopeId(dispatched[j])

\* what does hold: deliveries of different published messages carry different ids, and
\* the deliveries of one message carry the id publish() returned for it
C26_IdIsThePublishedId ==
  \A i \in 1..Len(dispatched) :
    Cardinality({k \in 1..Len(published) : published[k] = envelopeId(dispatched[i])}) = 1

----------------------------------------------------------------------------
(* SpecDelivery: a producer and a consumer that stays subscribed (no pause(), no       *)
(* disconnect()), its handler either returning normally or requeueing once. The timer  *)
(* of setInterval keeps firing and handlers end, hence the fairness conditions.        *)

InitDelivery ==
  /\ ConsumerConstructed
  /\ limits = [publishes |-> MaxFairPublishes, dispatches |-> 2 * MaxFairPublishes]

\* subscribe(handler, {autoAck}) with a handler that returns without settling
SubscribeReturning == subscribe("returns")

\* subscribe(handler, {autoAck: false}) with the handler of the test 'should requeue on nack'
SubscribeRequeuesOnce ==
  /\ cons.connected
  /\ ~cons.polling
  /\ cons' = [cons EXCEPT !.running = TRUE, !.polling = TRUE, !.autoAck = FALSE,
                          !.handler = "requeuesOnce"]
  /\ ev' = Quiet
  /\ UNCHANGED <<qvars, prod, tasks, published, dispatched, limits, bvars, xvars>>

\* the value of the handler's `attempts` counter in the invocation that got envelope e:
\* the position in dispatched of the delivery with e's deliveryAttempt
attempts(e) ==
  CHOOSE i \in 1..Len(dispatched) :
    /\ dispatched[i] = e.id
    /\ Cardinality({k \in 1..i : dispatched[k] = e.id}) = e.deliveryAttempt

\* the requeue-once handler runs: attempts < 2 -> message.nack(true), else message.ack();
\* then it returns (autoAck is false, poll does nothing more)
HandlerRequeuesOnce ==
  \E t \in tasks :
    /\ cons.handler = "requeuesOnce"
    /\ mq' = IF attempts(t.msg) < 2 THEN onNack(mq, cons, t.msg.id, TRUE)
                                    ELSE onAck(mq, cons, t.msg.id)
    /\ requeues' = IF attempts(t.msg) < 2 /\ mq' # mq
                   THEN [requeues EXCEPT ![t.msg.id] = @ + 1] ELSE requeues
    /\ tasks' = tasks \ {t}
    /\ ev' = Settled(IF attempts(t.msg) < 2 THEN "nack" ELSE "ack", t, mq')
    /\ UNCHANGED <<now, deliveries, enqRun, runBase, prod, cons, published, dispatched, limits, bvars, xvars>>

NextDelivery ==
  \/ ProducerConnect
  \/ ConsumerConnect
  \/ Publish
  \/ SubscribeReturning
  \/ SubscribeRequeuesOnce
  \/ Poll
  \/ HandlerReturn
  \/ HandlerRequeuesOnce

SpecDelivery ==
  /\ InitDelivery /\ [][NextDelivery]_vars
  /\ WF_vars(Poll) /\ WF_vars(HandlerReturn) /\ WF_vars(HandlerRequeuesOnce)

\* the queue holds nothing and nothing is in flight
Drained == size(mq, "q") = 0 /\ processingCount(mq, "q") = 0

\* the n-th published message was handed to the handler exactly once and is acknowledged
DeliveredOnce(n) ==
  /\ Len(published) >= n
  /\ deliveries[published[n]] = 1
  /\ mq.store[published[n]].acknowledged

AutoAckReturning == cons.polling /\ cons.autoAck /\ cons.handler = "returns"

\* C27: with a subscribed consumer (autoAck) whose handler always returns normally, every
\* published message is eventually handed to the handler, never more than once, and
\* acked; eventually every published message is acked, the queue size is 0 and
\* processingCount is 0.
C27_EventuallyDeliveredOnce ==
  /\ \A n \in 1..MaxFairPublishes :
       (AutoAckReturning /\ Len(published) >= n) ~> DeliveredOnce(n)
  /\ [](AutoAckReturning => \A id \in IdSpace : deliveries[id] <= 1)
  /\ AutoAckReturning ~>
       (Drained /\ \A n \in 1..Len(published) : DeliveredOnce(n))

\* C27 witness: every message the bound allows was published, handed to the handler in
\* publish order and acked, and the queue is drained
C27_Witness ==
  /\ AutoAckReturning
  /\ Len(published) = MaxFairPublishes
  /\ dispatched = published
  /\ \A n \in 1..Len(published) : DeliveredOnce(n)
  /\ Drained

ManualRequeueOnce == cons.polling /\ ~cons.autoAck /\ cons.handler = "requeuesOnce"

\* C28: autoAck = false and a handler that calls nack(true) on its first invocation and
\* ack() on every later one: once a message is published the handler is eventually
\* invoked at least twice and the queue size and in-flight count are both 0; a single
\* published message has then been delivered exactly twice and is acknowledged.
C28_RequeuedThenAcked ==
  /\ (ManualRequeueOnce /\ Len(published) >= 1) ~> (Len(dispatched) >= 2 /\ Drained)
  /\ [](ManualRequeueOnce /\ Len(published) = 1 /\ Drained /\ tasks = {} =>
          /\ dispatched = <<published[1], published[1]>>
          /\ mq.store[published[1]].acknowledged)

\* C28 witness: the one published message was nacked with requeue, delivered again, acked
C28_Witness ==
  /\ ManualRequeueOnce
  /\ Len(published) = 1
  /\ dispatched = <<published[1], published[1]>>
  /\ requeues[published[1]] = 1
  /\ mq.store[published[1]].acknowledged
  /\ Drained /\ tasks = {}

----------------------------------------------------------------------------
(* Claims about the circuit breaker's manual operations *)

\* the breaker right after reset(): closed, empty failure log, zero success counter,
\* no lastFailureTime, and an execute() at any later time invokes the operation
AfterReset ==
  /\ breaker.state = "closed"
  /\ breaker.failures = <<>>
  /\ breaker.successes = 0
  /\ breaker.lastFailureTime = 0
  /\ \A t \in now..BreakerMaxTime :
       execute(breaker, t).invoked /\ execute(breaker, t).error = "none"

\* the breaker right after trip(): open with lastFailureTime = now, and an execute() made
\* before resetTimeout has elapsed throws CircuitOpenError without invoking the operation
AfterTrip ==
  /\ breaker.state = "open"
  /\ breaker.lastFailureTime = now
  /\ \A t \in now..BreakerMaxTime :
       t - now < ResetTimeout =>
         /\ execute(breaker, t).error = "CircuitOpenError"
         /\ ~execute(breaker, t).invoked

\* C29 as stated: reset() and trip() from any state, of any breaker
C29_ManualOperations ==
  /\ bev.op = "reset" => AfterReset
  /\ bev.op = "trip" => AfterTrip

\* C29 amended: the same, the rejection after trip() for an enabled breaker; a disabled
\* breaker takes the state and lastFailureTime too, and its execute() invokes the operation
C29_ManualOperationsEnabled ==
  /\ bev.op = "reset" => AfterReset
  /\ bev.op = "trip" =>
       /\ breaker.state = "open"
       /\ breaker.lastFailureTime = now
       /\ breaker.enabled => AfterTrip
       /\ ~breaker.enabled => \A t \in now..BreakerMaxTime : execute(breaker, t).invoked

\* C29 witness: trip() on an enabled half-open breaker whose last failure is resetTimeout
\* or more in the past
C29_Witness ==
  /\ breaker.enabled
  /\ bev.op = "trip" /\ bev.from = "half-open" /\ bev.elapsed >= ResetTimeout
  /\ AfterTrip

----------------------------------------------------------------------------
(* SpecJson: JsonSerializer with default options (handleBigInt, handleDates). *)
(*                                                                           *)
(* JavaScript values are records [type, v]; strings, the decimal digits of   *)
(* numbers and of big integers, and the toISOString() of a Date are tuples   *)
(* of characters, so that isISODateString's pattern is matched character by  *)
(* character. The JSON text is kept as the tree JSON.parse reads from it:    *)
(* records [json, v].                                                        *)

Str(cs) == [type |-> "string", v |-> cs]
Num(cs) == [type |-> "number", v |-> cs]
Big(cs) == [type |-> "bigint", v |-> cs]
Date(iso) == [type |-> "date", v |-> iso]
Arr(items) == [type |-> "array", v |-> items]
Obj(props) == [type |-> "object", v |-> props]
Prop(k, x) == [k |-> k, x |-> x]
Null == [type |-> "null"]
Thrown == [type |-> "SerializationError"]

NaN == <<"N", "a", "N">>
InvalidDate == <<"I", "n", "v", "a", "l", "i", "d", " ", "D", "a", "t", "e">>
Hello == <<"h", "e", "l", "l", "o">>
IsoInstant == <<"2", "0", "2", "4", "-", "0", "1", "-", "1", "5", "T", "1", "0", ":", "3", "0", ":", "0", "0", ".", "0", "0", "0", "Z">>
IsoSeconds == <<"2", "0", "2", "4", "-", "0", "1", "-", "1", "5", "T", "1", "0", ":", "3", "0", ":", "0", "0", "Z">>
DateOnly == <<"2", "0", "2", "4", "-", "0", "1", "-", "1", "5">>
IsoShaped == <<"2", "0", "2", "4", "-", "1", "3", "-", "4", "5", "T", "1", "0", ":", "3", "0", ":", "0", "0", "Z">>
TypeBigint == <<"b", "i", "g", "i", "n", "t">>
TypeDate == <<"d", "a", "t", "e">>

Digits == {"0", "1", "2", "3", "4", "5", "6", "7", "8", "9"}

digit(c) ==
  CASE c = "0" -> 0 [] c = "1" -> 1 [] c = "2" -> 2 [] c = "3" -> 3 [] c = "4" -> 4
    [] c = "5" -> 5 [] c = "6" -> 6 [] c = "7" -> 7 [] c = "8" -> 8 [] OTHER -> 9

\* the two-digit number at positions i, i + 1
twoDigits(s, i) == 10 * digit(s[i]) + digit(s[i + 1])

\* /^\d{4}-\d{2}-\d{2}T\d{2}:\d{2}:\d{2}(\.\d{3})?Z?$/.test(value)
isoDateRegex(s) ==
  /\ Len(s) \in {19, 20, 23, 24}
  /\ \A i \in {1, 2, 3, 4, 6, 7, 9, 10, 12, 13, 15, 16, 18, 19} : s[i] \in Digits
  /\ s[5] = "-" /\ s[8] = "-" /\ s[11] = "T" /\ s[14] = ":" /\ s[17] = ":"
  /\ LET rest == SubSeq(s, 20, Len(s))
     IN \/ rest = <<>>
        \/ rest = <<"Z">>
        \/ /\ Len(rest) \in {4, 5}
           /\ rest[1] = "." /\ \A i \in 2..4 : rest[i] \in Digits
           /\ Len(rest) = 5 => rest[5] = "Z"

\* !isNaN(new Date(value).getTime()) for a string the pattern matched
parsesAsDate(s) ==
  /\ twoDigits(s, 6) \in 1..12
  /\ twoDigits(s, 9) \in 1..31
  /\ twoDigits(s, 12) \in 0..23
  /\ twoDigits(s, 15) \in 0..59
  /\ twoDigits(s, 18) \in 0..59

isISODateString(s) == isoDateRegex(s) /\ parsesAsDate(s)

\* new Date(value) for a string isISODateString accepted, as its toISOString(); a string
\* without Z is read as local time, here in a process whose time zone is UTC
newDate(s) ==
  SubSeq(s, 1, 19)
    \o (IF Len(s) >= 23 THEN SubSeq(s, 20, 23) ELSE <<".", "0", "0", "0">>)
    \o <<"Z">>

\* mutant of defaultReviver's string branch: strings are left alone
revivedStringKept(s) == Str(s)

\* defaultReviver on a string: ISO date strings become Dates
revivedString(s) == IF isISODateString(s) THEN Date(newDate(s)) ELSE Str(s)

\* what JSON.stringify hands on for a value: Date.prototype.toJSON() runs before the
\* replacer, which therefore sees a string; the replacer wraps a bigint
replaced(x) ==
  CASE x.type = "date" -> Str(x.v)
    [] x.type = "bigint" -> Obj(<<Prop("__type", Str(TypeBigint)), Prop("value", Str(x.v))>>)
    [] OTHER -> x

RECURSIVE stringify(_)
\* JSON.stringify(value, defaultReplacer(options)): the JSON text, as its tree
stringify(x) ==
  LET y == replaced(x)
  IN CASE y.type = "string" -> [json |-> "string", v |-> y.v]
       [] y.type = "number" -> IF y.v = NaN THEN [json |-> "null"]
                                            ELSE [json |-> "number", v |-> y.v]
       [] y.type = "array" ->
            [json |-> "array", v |-> [i \in 1..Len(y.v) |-> stringify(y.v[i])]]
       [] y.type = "object" ->
            [json |-> "object",
             v |-> [i \in 1..Len(y.v) |-> Prop(y.v[i].k, stringify(y.v[i].x))]]
       [] OTHER -> [json |-> "null"]

hasProp(o, k) == \E i \in 1..Len(o.v) : o.v[i].k = k

prop(o, k) == o.v[CHOOSE i \in 1..Len(o.v) : o.v[i].k = k].x

\* defaultReviver on an object whose properties were already revived
revivedObject(o) ==
  IF ~hasProp(o, "__type") THEN o
  ELSE IF prop(o, "__type") = Str(TypeBigint)
       THEN IF hasProp(o, "value") /\ prop(o, "value").type = "string"
                 /\ \A i \in 1..Len(prop(o, "value").v) : prop(o, "value").v[i] \in Digits
            THEN Big(prop(o, "value").v)
            ELSE Thrown
       ELSE IF prop(o, "__type") = Str(TypeDate)
            THEN IF hasProp(o, "value") /\ prop(o, "value").type = "date"
                 THEN prop(o, "value")
                 ELSE Date(InvalidDate)
            ELSE o

RECURSIVE revive(_)
\* JSON.parse(text, defaultReviver(options)): properties and elements first, then the
\* value that holds them
revive(j) ==
  CASE j.json = "string" -> revivedString(j.v)
    [] j.json = "number" -> Num(j.v)
    [] j.json = "array" ->
         LET items == [i \in 1..Len(j.v) |-> revive(j.v[i])]
         IN IF \E i \in 1..Len(items) : items[i] = Thrown THEN Thrown ELSE Arr(items)
    [] j.json = "object" ->
         LET props == [i \in 1..Len(j.v) |-> Prop(j.v[i].k, revive(j.v[i].x))]
         IN IF \E i \in 1..Len(props) : props[i].x = Thrown
            THEN Thrown ELSE revivedObject(Obj(props))
    [] OTHER -> Null

\* serialize(value)
serialize(x) == stringify(x)

\* deserialize(data): what the reviver throws is rethrown as SerializationError
deserialize(text) == revive(text)

\* the payloads: strings, numbers, big integers, timestamps, arrays of them, objects
\* holding them, an array in an object, an object in an array
Leaves ==
  {Str(Hello), Str(DateOnly), Str(IsoShaped), Str(IsoInstant), Str(IsoSeconds),
   Num(<<"1">>), Num(<<"4", "2">>), Num(NaN), Big(<<"1", "2", "3">>), Date(IsoInstant)}

Arrays == UNION {[1..n -> Leaves] : n \in 1..MaxArrayLen}

Payloads ==
  Leaves
    \cup {Arr(a) : a \in Arrays}
    \cup {Obj(<<Prop("a", x)>>) : x \in Leaves}
    \cup {Obj(<<Prop("a", Arr(<<x>>))>>) : x \in Leaves}
    \cup {Arr(<<Obj(<<Prop("a", x)>>)>>) : x \in Leaves}
    \cup {Obj(<<Prop("__type", Str(TypeBigint)), Prop("value", Str(<<"7">>))>>)}

InitJson ==
  /\ NoConsumer
  /\ NoBreaker
  /\ NoRetry /\ NoBackoff /\ NoLife /\ NoPublish /\ NoTransport
  /\ qev = NoQueueEvent /\ reg = NoRegistry /\ sb = NoServiceBus
  /\ mq = NewQueues(0, 0)
  /\ now = 1
  /\ deliveries = [id \in IdSpace |-> 0]
  /\ requeues = [id \in IdSpace |-> 0]
  /\ enqRun = <<>>
  /\ runBase = 0
  /\ \E x \in Payloads : js = [input |-> x, text |-> Undefined, output |-> Undefined]

JsonUnchanged == UNCHANGED <<qvars, cvars, bvars, rt, bk, life, px, tp, qev, reg, sb>>

\* serializer.serialize(x)
JsonSerialize ==
  /\ js.text = Undefined
  /\ js' = [js EXCEPT !.text = serialize(js.input)]
  /\ JsonUnchanged

\* serializer.deserialize(text)
JsonDeserialize ==
  /\ js.text # Undefined /\ js.output = Undefined
  /\ js' = [js EXCEPT !.output = deserialize(js.text)]
  /\ JsonUnchanged

NextJson ==
  \/ JsonSerialize
  \/ JsonDeserialize

SpecJson == InitJson /\ [][NextJson]_vars

\* C30: deserialize(serialize(x)) equals x, each value with its original type, for every
\* payload of nested objects, arrays, strings, numbers, big integers and timestamps.
C30_RoundTrip == js.output # Undefined => js.output = js.input

RECURSIVE Plain(_)
\* a payload with no string that reads as an ISO date, no NaN and no property named __type
Plain(x) ==
  CASE x.type = "string" -> ~isISODateString(x.v)
    [] x.type = "number" -> x.v # NaN
    [] x.type = "array" -> \A i \in 1..Len(x.v) : Plain(x.v[i])
    [] x.type = "object" -> \A i \in 1..Len(x.v) : x.v[i].k # "__type" /\ Plain(x.v[i].x)
    [] OTHER -> TRUE

\* C30 amended: deserialize(serialize(x)) equals x, each value with its original type, for
\* every payload of nested objects, arrays, strings, numbers, big integers and timestamps
\* that holds no string reading as an ISO date, no NaN and no property named __type.
C30_RoundTripPlain == (js.output # Undefined /\ Plain(js.input)) => js.output = js.input

\* C30 witness: an array of a big integer and a timestamp went through serialize() and
\* deserialize() and came back as it was
C30_Witness ==
  /\ js.input = Arr(<<Big(<<"1", "2", "3">>), Date(IsoInstant)>>)
  /\ js.text = serialize(js.input)
  /\ js.output = js.input

----------------------------------------------------------------------------
(* Claims about what engages the in-memory consumer's DLQ *)

\* C31: with the DLQ enabled, a DLQ record is made only by a step in which a handler
\* invocation throws while the stored message's deliveryAttempt is >= maxDeliveryAttempts;
\* a handler calling nack(true) and returning normally never makes one, whatever the
\* deliveryAttempt, so as long as no handler has thrown the DLQ is empty.
C31_DlqOnlyOnThrow ==
  /\ [][mq'.messages["dlq"] # mq.messages["dlq"] =>
          /\ cons.dlq
          /\ life'.handlerThrows = life.handlerThrows + 1
          /\ \E t \in tasks \ tasks' :
               /\ mq.store[t.msg.id].deliveryAttempt >= MaxDeliveryAttemptsN
               /\ mq'.messages["dlq"] = Append(mq.messages["dlq"], Len(mq'.store))
               /\ mq'.store[Len(mq'.store)].body = mq.store[t.msg.id].body
     ]_vars
  /\ [](life.handlerThrows = 0 => mq.messages["dlq"] = <<>>)

\* C31 witness: a message was nacked with requeue by a handler that returned, delivered
\* again, and is on the DLQ after a handler threw on that delivery
C31_Witness ==
  /\ cons.dlq /\ cons.handler = "settles"
  /\ \E i \in 1..Len(published) :
       /\ requeues[published[i]] >= 1
       /\ DlqCopies(published[i]) # {}
  /\ life.handlerThrows = 1

----------------------------------------------------------------------------
(* SpecNack: the RabbitMQ and NATS consumers with a handler that may call               *)
(* message.nack(requeue) on its envelope before it ends.                                *)

InitNack ==
  /\ IdleQueue
  /\ NoConsumer
  /\ NoBreaker
  /\ NoRetry
  /\ NoBackoff
  /\ NoLife
  /\ NoPublish
  /\ qev = NoQueueEvent
  /\ reg = NoRegistry /\ sb = NoServiceBus /\ js = NoJson
  /\ \E a \in {"rabbitmq", "nats"} :
       tp = [adapter |-> a, subscribed |-> FALSE, paused |-> FALSE, receiving |-> FALSE,
             ready |-> [i \in 1..MaxBrokerMessages |-> i], unacked |-> {}, done |-> {},
             batch |-> <<>>, handling |-> {}, handovers |-> 0, returned |-> {},
             skipped |-> {}, redelivered |-> {}, thrown |-> {}, discarded |-> {}]

\* the envelope's onNack of both adapters: the requeue argument is not a parameter of the
\* callback; RabbitMQ calls channel.nack(msg, false, true), NATS calls jsMsg.nak()
envelopeNack(t, id, requeue) == [released(t, id) EXCEPT !.skipped = t.skipped]

\* the handler calls message.nack(requeue) on the envelope it was given
EnvelopeNack ==
  /\ \E id \in tp.handling \cap tp.unacked, requeue \in BOOLEAN :
       tp' = [envelopeNack(tp, id, requeue) EXCEPT
                !.discarded = IF requeue THEN @ ELSE @ \cup {id}]
  /\ TUnchanged

NextNack ==
  \/ TSubscribe
  \/ RabbitDeliver
  \/ RabbitHandlerEnds
  \/ NatsDeliver
  \/ NatsHandlerEnds
  \/ NatsAckWait
  \/ EnvelopeNack

SpecNack == InitNack /\ [][NextNack]_vars

\* C32: a message whose envelope got nack(false) is not delivered again: the broker does
\* not hold it for delivery and no later handler invocation gets it.
C32_NackFalseDiscards ==
  \A id \in tp.discarded : id \notin Range(tp.ready) /\ id \notin tp.redelivered

\* the in-memory part of C32: a nack(false) that takes a message out of the in-flight map
\* leaves it in neither the stored sequence, the in-flight map nor the DLQ
C32_MemoryDiscards ==
  [][(ev'.op = "nack" /\ ev'.changed /\ requeues' = requeues) =>
       \E t \in tasks :
         /\ t.msg.id \in mq.processing["q"]
         /\ t.msg.id \notin mq'.processing["q"]
         /\ ~\E i \in 1..Len(mq'.messages["q"]) : mq'.messages["q"][i] = t.msg.id
         /\ mq'.messages = mq.messages
  ]_vars

----------------------------------------------------------------------------
(* Claims about MemoryQueue's age limit *)

\* the stored sequence of "q" holds no message whose age reached maxAgeMs
NoExpiredStored ==
  \A i \in 1..Len(mq.messages["q"]) : ~Expired(mq.messages["q"][i])

\* C33: with maxAgeMs > 0 no dequeue() or dequeueBatch() returns a message whose age has
\* reached maxAgeMs, and after an enqueue or a dequeue no expired message, requeued ones
\* included, is left in the stored sequence; with maxAgeMs = 0 an enqueue only appends
\* (and shifts on overflow) and a dequeue only takes the head.
C33_ExpiredNeverReturned ==
  [][/\ \A id \in 1..Len(mq.store) : deliveries'[id] > deliveries[id] => ~Expired(id)
     /\ (QEnqueue \/ QDequeue \/ QDequeueBatch) => NoExpiredStored'
     /\ (mq.maxAgeMs["q"] = 0 /\ QEnqueue) =>
          \/ mq'.messages["q"] = Append(mq.messages["q"], Len(mq'.store))
          \/ /\ mq.maxMessages["q"] > 0
             /\ mq'.messages["q"] = Tail(Append(mq.messages["q"], Len(mq'.store)))
     /\ (mq.maxAgeMs["q"] = 0 /\ QDequeue) =>
          \/ mq.messages["q"] = <<>> /\ mq'.messages["q"] = <<>>
          \/ mq.messages["q"] # <<>> /\ mq'.messages["q"] = Tail(mq.messages["q"])
  ]_vars

\* a requeued message expired and was removed from the stored sequence while a younger
\* message was dequeued
C33_Witness ==
  /\ mq.maxAgeMs["q"] > 0
  /\ \E id \in 1..Len(mq.store) :
       /\ requeues[id] >= 1 /\ deliveries[id] = requeues[id]
       /\ Expired(id)
       /\ id \notin mq.processing["q"]
       /\ ~\E i \in 1..Len(mq.messages["q"]) : mq.messages["q"][i] = id
       /\ \E other \in mq.processing["q"] : other > id /\ ~Expired(other)

----------------------------------------------------------------------------
(* SpecServiceBus: one call of ServiceBusProducer.publishBatch(messages). A message is  *)
(* its position in the input; input[i] is the size it takes in a batch. sb.batch is the *)
(* ServiceBusMessageBatch the constant `batch` names, sb.sent the batches handed to     *)
(* sender.sendMessages, in order, sb.messageIds the ids generated so far.               *)

SeqsUpTo(S, n) == UNION {[1..k -> S] : k \in 0..n}

InitServiceBus ==
  /\ IdleQueue
  /\ NoConsumer
  /\ NoBreaker
  /\ NoRetry /\ NoBackoff /\ NoLife /\ NoPublish /\ NoTransport
  /\ qev = NoQueueEvent /\ reg = NoRegistry /\ js = NoJson
  /\ \E input \in SeqsUpTo(1..BatchCapacity, MaxBatchInput), connected \in BOOLEAN :
       sb = [phase |-> "idle", connected |-> connected, input |-> input, next |-> 0,
             batch |-> <<>>, sent |-> <<>>, messageIds |-> <<>>]

SbUnchanged == UNCHANGED <<qvars, cvars, bvars, rt, bk, life, px, tp, qev, reg, js>>

\* the size of the messages a batch holds
RECURSIVE sizeInBytes(_, _)
sizeInBytes(input, batch) ==
  IF batch = <<>> THEN 0 ELSE input[Head(batch)] + sizeInBytes(input, Tail(batch))

\* batch.tryAddMessage(message): whether the message still fits
tryAddMessage(input, batch, i) == sizeInBytes(input, batch) + input[i] <= BatchCapacity

\* publishBatch is called: ConnectionError without a sender, else createMessageBatch()
SbPublishBatch ==
  /\ sb.phase = "idle"
  /\ sb' = IF sb.connected
           THEN [sb EXCEPT !.phase = "looping", !.next = 1]
           ELSE [sb EXCEPT !.phase = "failed"]
  /\ SbUnchanged

\* one iteration of the loop: the id is generated and pushed, the message is added to
\* `batch`; when refused, `batch` is sent and the message is added to a batch that only
\* the iteration's local newBatch names
SbIteration ==
  /\ sb.phase = "looping"
  /\ sb.next <= Len(sb.input)
  /\ sb' = IF tryAddMessage(sb.input, sb.batch, sb.next)
           THEN [sb EXCEPT !.messageIds = Append(@, sb.next),
                           !.batch = Append(@, sb.next),
                           !.next = @ + 1]
           ELSE [sb EXCEPT !.messageIds = Append(@, sb.next),
                           !.sent = Append(@, sb.batch),
                           !.next = @ + 1]
  /\ SbUnchanged

\* after the loop: `batch` is sent when it holds a message, messageIds is returned
SbReturn ==
  /\ sb.phase = "looping"
  /\ sb.next > Len(sb.input)
  /\ sb' = [sb EXCEPT !.phase = "returned",
                      !.sent = IF sb.batch # <<>> THEN Append(@, sb.batch) ELSE @]
  /\ SbUnchanged

\* sender.sendMessages rejects: the catch block throws PublishError
SbSendFails ==
  /\ sb.phase = "looping"
  /\ \/ sb.next <= Len(sb.input) /\ ~tryAddMessage(sb.input, sb.batch, sb.next)
     \/ sb.next > Len(sb.input) /\ sb.batch # <<>>
  /\ sb' = [sb EXCEPT !.phase = "failed"]
  /\ SbUnchanged

NextServiceBus ==
  \/ SbPublishBatch
  \/ SbIteration
  \/ SbReturn
  \/ SbSendFails

SpecServiceBus == InitServiceBus /\ [][NextServiceBus]_vars

\* the number of times message i was handed to sender.sendMessages
RECURSIVE timesSent(_, _)
timesSent(sent, i) ==
  IF sent = <<>> THEN 0
  ELSE Cardinality({k \in 1..Len(Head(sent)) : Head(sent)[k] = i}) + timesSent(Tail(sent), i)

\* C34: when publishBatch returns, every input message has been sent exactly once, also
\* when tryAddMessage refused one, and the returned list has one id per input message in
\* input order.
C34_EachSentOnce ==
  sb.phase = "returned" =>
    /\ \A i \in 1..Len(sb.input) : timesSent(sb.sent, i) = 1
    /\ sb.messageIds = [i \in 1..Len(sb.input) |-> i]

\* the part of C34 the code keeps: one id per input message, in input order, and no
\* message that was not refused is lost
C34_OneIdPerInput ==
  sb.phase = "returned" =>
    /\ sb.messageIds = [i \in 1..Len(sb.input) |-> i]
    /\ \A k \in 1..Len(sb.batch) : timesSent(sb.sent, sb.batch[k]) >= 1

----------------------------------------------------------------------------
(* Claims about the delays without jitter *)

\* the Fibonacci numbers by their recurrence: fib(1) = fib(2) = 1
RECURSIVE Fib(_)
Fib(n) == IF n <= 2 THEN 1 ELSE Fib(n - 1) + Fib(n - 2)

\* the delay of attempt n under options o as the four formulas give it
FormulaDelay(n, o) ==
  CASE o.strategy = "exponential" -> Min(o.maxDelayMs, o.initialDelayMs * Pow(o.multiplier, n - 1))
    [] o.strategy = "linear" -> Min(o.maxDelayMs, o.initialDelayMs + (n - 1) * o.multiplier)
    [] o.strategy = "constant" -> o.initialDelayMs
    [] o.strategy = "fibonacci" -> Min(o.maxDelayMs, o.initialDelayMs * Fib(n))

\* the retry configuration of the calculateBackoff tests
TestRetryConfig ==
  [initialDelayMs |-> 100, maxDelayMs |-> 10000, multiplier |-> 2, jitter |-> FALSE]

\* C35: with jitter off, calculateDelay(n, options) is the formula of its strategy and
\* calculateBackoff(n, config) is the exponential formula; initial 100 and multiplier 2
\* give 100, 200, 400, 800 for n = 1..4.
C35_DelaysWithoutJitter ==
  /\ (bk.fn = "calculateDelay" /\ ~bk.options.jitter) =>
       bk.delay = FormulaDelay(bk.attempt, bk.options)
  /\ (bk.fn = "calculateBackoff" /\ ~bk.options.jitter) =>
       bk.delay = Min(bk.options.maxDelayMs,
                      bk.options.initialDelayMs * Pow(bk.options.multiplier, bk.attempt - 1))
  /\ [n \in 1..4 |-> calculateBackoff(n, TestRetryConfig, 0)] = <<100, 200, 400, 800>>

\* the fibonacci strategy at attempt 4, below the cap
C35_Witness ==
  /\ bk.fn = "calculateDelay" /\ ~bk.options.jitter
  /\ bk.options.strategy = "fibonacci"
  /\ bk.attempt = 4
  /\ bk.delay = 3 * bk.options.initialDelayMs
  /\ bk.delay < bk.options.maxDelayMs

----------------------------------------------------------------------------
(* SpecResilience: BaseAdapter.executeWithResilience(operation, name), called again and *)
(* again by one caller that awaits each call: circuitBreaker.execute around withRetry   *)
(* around the operation. rt is the withRetry call in progress (pc "idle": none yet, or  *)
(* the last call was refused by the breaker), started the number of calls. The retry    *)
(* configuration is one without jitter: the delays play no part here.                   *)

InitResilience ==
  /\ IdleQueue
  /\ NoConsumer
  /\ NoBackoff
  /\ NoOthers
  /\ \E enabled \in BOOLEAN :
       /\ breaker = NewBreaker(enabled)
       /\ bev = BreakerEvent("none", NewBreaker(enabled), 1, "none", FALSE, NoMetrics)
  /\ pending = {}
  /\ started = 0
  /\ failureLog = <<>>
  /\ closedAt = 0
  /\ streak = 0
  /\ period = 0
  /\ \E maxRetries \in 0..MaxRetriesBound :
       rt = NewRetry(maxRetries, FALSE, TRUE, "default", FALSE)

\* mutant of resilienceSettles: the breaker is told of every failed attempt
resilienceCountsAttempts(b, r, c, t) ==
  IF ~b.enabled THEN b
  ELSE IF Len(c.errors) > Len(r.errors) THEN onFailure(b, t)
  ELSE IF c.pc = "done" /\ c.outcome.kind = "value" THEN onSuccess(b)
  ELSE b

\* the breaker after a step of withRetry from r to c: execute() awaits the promise of
\* withRetry and calls onSuccess() or onFailure() once it has settled
resilienceSettles(b, r, c, t) ==
  IF ~b.enabled \/ c.pc # "done" THEN b
  ELSE IF c.outcome.kind = "error" THEN onFailure(b, t)
  ELSE onSuccess(b)

\* the history of a step of withRetry from rt to c
RetryStep(c) ==
  /\ rt' = c
  /\ breaker' = resilienceSettles(breaker, rt, c, now)
  /\ failureLog' = IF breaker'.totalFailures > breaker.totalFailures
                   THEN Append(failureLog, now) ELSE failureLog
  /\ closedAt' = IF breaker'.state = "closed" /\ breaker.state # "closed"
                 THEN Len(failureLog) ELSE closedAt
  /\ bev' = BreakerEvent(IF c.pc # "done" THEN "attempt"
                         ELSE IF ~breaker.enabled THEN "unguarded"
                         ELSE IF c.outcome.kind = "error" THEN "failure" ELSE "success",
                         breaker, now, IF c.pc = "done" /\ c.outcome.kind = "error"
                                       THEN "operation" ELSE "none", FALSE, NoMetrics)
  /\ UNCHANGED <<pending, started, streak, period>>
  /\ UNCHANGED <<qvars, cvars, bk, yvars>>

\* executeWithResilience is called: execute() throws CircuitOpenError or invokes the
\* async function, which calls withRetry with the adapter's retry configuration and onRetry
ExecuteWithResilience ==
  /\ rt.pc \in {"idle", "done"}
  /\ started < MaxResilientCalls
  /\ LET r == execute(breaker, now)
         fresh == NewRetry(rt.maxRetries, FALSE, TRUE, "default", rt.jitter)
     IN /\ breaker' = r.b
        /\ rt' = IF r.invoked THEN attemptStart(fresh, 1) ELSE fresh
        /\ bev' = BreakerEvent("execute", breaker, now, r.error, r.invoked, NoMetrics)
  /\ started' = started + 1
  /\ UNCHANGED <<pending, failureLog, closedAt, streak, period>>
  /\ UNCHANGED <<qvars, cvars, bk, yvars>>

\* the operation resolves
ResilientOperationResolves ==
  /\ rt.pc = "operation"
  /\ RetryStep(returns(rt))

\* the operation rejects
ResilientOperationRejects ==
  /\ rt.pc = "operation"
  /\ \E error \in Errors, draw \in Draws : RetryStep(caught(rt, error, draw))

\* onRetry (logger.warn) has returned
ResilientOnRetryReturns ==
  /\ rt.pc = "onRetry"
  /\ RetryStep(sleep(rt))

\* the timer of sleep() fires
ResilientSleepEnds ==
  /\ rt.pc = "sleeping"
  /\ RetryStep(sleepEnds(rt))

NextResilience ==
  \/ ExecuteWithResilience
  \/ ResilientOperationResolves
  \/ ResilientOperationRejects
  \/ ResilientOnRetryReturns
  \/ ResilientSleepEnds
  \/ BTick

SpecResilience == InitResilience /\ [][NextResilience]_vars

\* a call of executeWithResilience ends in this step, with an error of its operation or
\* with its value
CallFails == rt.pc # "done" /\ rt'.pc = "done" /\ rt'.outcome.kind = "error"
CallSucceeds == rt.pc # "done" /\ rt'.pc = "done" /\ rt'.outcome.kind = "value"

\* the failures the breaker counts, this step's included, that are less than failureWindow
\* old, from position k of the log on
RECURSIVE FailuresCounted(_, _, _)
FailuresCounted(log, k, t) ==
  IF k > Len(log) THEN 0
  ELSE (IF t - log[k] < FailureWindow THEN 1 ELSE 0) + FailuresCounted(log, k + 1, t)

\* C36 as stated: a call whose operation fails on its last attempt records exactly one
\* breaker failure, a failed attempt that is retried and a call that succeeds record none,
\* and the breaker opens only when failureThreshold failed calls lie within failureWindow.
C36_OneFailurePerCall ==
  [][/\ CallFails => breaker'.totalFailures = breaker.totalFailures + 1
     /\ ~CallFails => breaker'.totalFailures = breaker.totalFailures
     /\ (breaker.state # "open" /\ breaker'.state = "open") =>
          FailuresCounted(failureLog', 1, now) >= FailureThreshold
  ]_vars

\* C36 amended: with the breaker enabled a call whose operation fails on its last attempt
\* records exactly one breaker failure, a retried attempt and a successful call none;
\* with the breaker disabled nothing is recorded. From closed the breaker opens only when
\* failureThreshold calls failed within failureWindow since it was last closed; from
\* half-open it opens when one call fails.
C36_OneFailurePerGuardedCall ==
  [][/\ (CallFails /\ breaker.enabled) => breaker'.totalFailures = breaker.totalFailures + 1
     /\ (~CallFails \/ ~breaker.enabled) => breaker'.totalFailures = breaker.totalFailures
     /\ CallSucceeds => failureLog' = failureLog
     /\ (breaker.state = "closed" /\ breaker'.state = "open") =>
          /\ CallFails
          /\ FailuresCounted(failureLog', closedAt + 1, now) >= FailureThreshold
     /\ (breaker.state = "half-open" /\ breaker'.state = "open") => CallFails
     /\ ~breaker.enabled => breaker'.state = "closed"
  ]_vars

\* the breaker has opened on the failureThreshold-th failed call, each of which made more
\* than one attempt
C36_Witness ==
  /\ breaker.enabled /\ breaker.state = "open"
  /\ rt.pc = "done" /\ rt.outcome.kind = "error"
  /\ rt.maxRetries >= 1 /\ rt.invocations = rt.maxRetries + 1
  /\ started = FailureThreshold
  /\ breaker.totalFailures = FailureThreshold

----------------------------------------------------------------------------
(* Claims about MemoryQueue's two collections *)

\* C37: in every state of a MemoryQueue no message id is in the stored sequence and in
\* the in-flight map at once, and no id is in the stored sequence twice.
C37_StoredAndInFlightDisjoint ==
  \A qn \in QueueNames :
    LET m == mq.messages[qn]
    IN /\ \A i \in 1..Len(m) : m[i] \notin mq.processing[qn]
       /\ \A i, j \in 1..Len(m) : m[i] = m[j] => i = j

\* a message delivered twice is in flight while another is stored and one was dead-lettered
C37_Witness ==
  /\ \E id \in mq.processing["q"] : requeues[id] >= 1 /\ deliveries[id] >= 2
  /\ mq.messages["q"] # <<>>
  /\ mq.messages["dlq"] # <<>>

----------------------------------------------------------------------------
(* Claims about MemoryQueue's capacity *)

\* C38: a queue constructed with maxMessages = K > 0 never stores more than K messages:
\* size() <= K in every state reached by enqueue, dequeue, ack and nack.
C38_SizeWithinCapacity ==
  mq.maxMessages["q"] > 0 => size(mq, "q") <= mq.maxMessages["q"]

\* what the code keeps of C38: while no message has been requeued the bound holds, and
\* the excess is never more than the requeues made
C38_SizeWithinCapacityAndRequeues ==
  mq.maxMessages["q"] > 0 =>
    size(mq, "q") <= mq.maxMessages["q"] + SumOver(requeues, IdSpace)

----------------------------------------------------------------------------
(* Claims about overlapping operations and the success counter *)

\* the operation whose result this step reports was admitted in the current half-open
\* period
ReportsCurrentPeriod == \E p \in pending \ pending' : p.period = period

\* C39: a success is counted towards closing - it raises the success counter of the
\* half-open breaker or closes it - only if its operation was admitted during the current
\* half-open period, not while the breaker was closed or in an earlier half-open period.
C39_CountsCurrentPeriodOnly ==
  [][(/\ breaker.enabled /\ breaker.state = "half-open"
      /\ bev'.op = "success"
      /\ \/ breaker'.successes > breaker.successes
         \/ breaker'.state = "closed")
     => ReportsCurrentPeriod
  ]_vars

\* what the code keeps of C39: the breaker closes from half-open only in a step that
\* reports a success, the successThreshold-th reported since it became half-open
C39_ClosesOnReportedSuccesses ==
  [][(breaker.state = "half-open" /\ breaker'.state = "closed" /\ bev'.op # "reset")
     => /\ bev'.op = "success"
        /\ streak' = SuccessThreshold
  ]_vars

\* C40: the success counter getMetrics() reports is 0 whenever the reported state is not
\* half-open and below successThreshold whenever it is half-open, after any sequence of
\* execute(), reset() and trip() calls.
C40_SuccessCounterBounds ==
  bev.op = "getMetrics" =>
    IF bev.metrics.state = "half-open"
    THEN bev.metrics.successes < SuccessThreshold
    ELSE bev.metrics.successes = 0

\* what the code keeps of C40: the counter is below successThreshold in every state and
\* 0 in closed, and getMetrics() reports the state and the counter as they are
C40_SuccessCounterBelowThreshold ==
  /\ breaker.successes < SuccessThreshold
  /\ breaker.state = "closed" => breaker.successes = 0
  /\ bev.op = "getMetrics" =>
       /\ bev.metrics.successes = breaker.successes
       /\ bev.metrics.state = breaker.state

====
